---- MODULE Spec2Model ----
(***************************************************************************)
(* Subscription lifecycle of the group-access bot: payment ingestion      *)
(* (app/routers/payments.py), the store accessors (app/db.py), the hourly  *)
(* state sweep (app/scheduler.py) and the reconciliation job               *)
(* (app/reconcile.py).  Time is counted in minutes.  Every await of the    *)
(* source that reads or writes a table is one step, so the asyncio tasks   *)
(* interleave exactly at their suspension points.                          *)
(***************************************************************************)
EXTENDS Integers, Sequences, FiniteSets, TLC

(* ---- bounds of the model ---- *)
NumUsers == 1
NumHandlers == 2
MaxTx == 2
MaxRecTx == 1
MaxTicks == 2
MaxCalls == 9
MaxCbTicks == 4
MaxOps == 3
MaxDrainCalls == 5
MaxBlockedTx == 2
NumBreakerTasks == 2
MaxBtCalls == 6
NumGrantTasks == 2
MaxRemTicks == 3
MaxOutages == 2
NumJoinTasks == 2
MaxGrants == 2
MaxJoins == 3
NumCallers == 2
NumKeys == 2
MaxRequests == 2
WindowSeconds == 2
MaxRlCalls == 5
MaxRlTicks == 4

(* ---- constants of the program ---- *)
PLAN_DAYS == 30
SUB_STARS == 30
GRACE_HOURS == 48
days_before_expire == 3
RECONCILE_WINDOW_DAYS == 3
RENEWAL_DAYS == 30
SUBSCRIPTION_PERIOD_DAYS == 30
DEBOUNCE_HOURS == 1
CURSOR_INIT_DAYS == 7
DEDUP_EXTRA_DAYS == 1
PAGE_LIMIT == 100
failure_threshold == 5
recovery_timeout == 30
success_threshold == 2
QUEUE_ATTEMPTS == 3
max_attempts == 8
max_size == 1000
retry_max_attempts == 3
initial_delay == 1
max_delay == 10
exponential_base == 2
NULL == -1

Days(n) == n * 24 * 60
Hours(n) == n * 60
Max(a, b) == IF a >= b THEN a ELSE b

Users == 1..NumUsers
Handlers == 1..NumHandlers

(* The clock starts late enough for every stored timestamp to be positive. *)
Epoch == Days(CURSOR_INIT_DAYS + 1)

(* The instants at which tasks run: the hourly sweep that follows the end of
   a plan period, then one minute after the grace period that began at that
   end, and so on periodically. *)
Jump(k) ==
    IF k % 2 = 0 THEN Days(PLAN_DAYS) + Hours(1)
    ELSE Hours(GRACE_HOURS) - Hours(1) + 1

VARIABLES
    now,        \* wall clock (minutes)
    ticks,      \* number of clock advances so far
    ledger,     \* the provider's transaction list (get_star_transactions)
    users,      \* table users: the user ids present
    payments,   \* table payments, payment_id = index
    subs,       \* table subscriptions, subscription_id = index
    whitelist,  \* table whitelist: users with revoked_at IS NULL
    cursor,     \* star_tx_cursor.last_tx_at, NULL when the row is missing
    hs,         \* one record per webhook task running handle_successful_payment
    sw,         \* the check_subscriptions job
    rc,         \* the reconcile_star_transactions job
    banCalls,   \* bot.ban_chat_member calls issued, per user
    obs,        \* history of the runs (used by the properties only)
    sw2,        \* a second, overlapping run of check_subscriptions
    rc2,        \* a second, overlapping run of reconcile_star_transactions
    kick_enabled, \* feature flag kick_enabled: "unset", "on" or "off"
    rem,        \* the send_reminders job
    reminders,  \* the expiry reminders sent, in order
    cb,         \* one CircuitBreaker and the call holding its lock
    cbNow,      \* time.time() as the breaker reads it (seconds)
    cbHist,     \* outcomes of the calls made through the breaker, in order
    opq,        \* the OperationQueue and the drain (process) working on it
    opLog,      \* per operation added: attempts made and what became of it
    fa,         \* the finalize_access tasks
    api,        \* the messaging API: up or down, and the outages so far
    approved,   \* users whose join request has been approved
    jn,         \* the handle_join_request tasks
    joinLog,    \* whitelist grants made and join requests received so far
    rl,         \* RateLimiter.requests: per key, the deque of timestamps
    rlNow,      \* time.time() as the rate limiter reads it (seconds)
    rlTasks,    \* the requests inside RateLimitMiddleware.dispatch
    rlLog,      \* the outcomes of check_rate_limit, in order
    rs,         \* the call of ResilientTelegramBot.send_message in progress
    ct          \* the tasks calling CircuitBreaker.call on one breaker

(* the state of the resilience layer, which the subscription engine's tasks
   leave alone *)
ResilienceVars == <<cb, cbNow, cbHist, opq, opLog, fa, api, approved>>

ReminderVars == <<rem, reminders>>

(* the second runs of the jobs, which only their own steps touch *)
SecondSweep == <<sw2>>
SecondReconcile == <<rc2>>

(* the feature flags *)
FlagVars == <<kick_enabled>>

(* the join-request handlers *)
JoinVars == <<jn, joinLog>>

(* the resilient wrapper of the messaging API *)
CallVars == <<rs>>

(* the tasks that call through one circuit breaker *)
TaskVars == <<ct>>

(* the rate limiter of the HTTP endpoints *)
LimiterVars == <<rl, rlNow, rlTasks, rlLog>>

(* the request-side components, which the jobs leave alone *)
ExtraVars == <<JoinVars, LimiterVars, CallVars, TaskVars>>

(* what the reconciliation leaves alone, besides the other run *)
RecOther == <<ResilienceVars, ReminderVars, SecondSweep, FlagVars, ExtraVars>>

(* what the webhook handlers, the sweep and the reconciliation leave alone *)
OtherVars == <<ResilienceVars, ReminderVars, SecondSweep, FlagVars, ExtraVars,
               SecondReconcile>>

vars == <<now, ticks, ledger, users, payments, subs, whitelist, cursor,
          hs, sw, rc, banCalls, obs, OtherVars>>

(* ---- rows ---- *)
SubIds == 1..Len(subs)
PayIds == 1..Len(payments)

NewSub(u, rec, exp) ==
    [user_id |-> u, status |-> "active", is_recurring |-> rec,
     expires_at |-> exp, grace_until |-> NULL, grace_started_at |-> NULL,
     reminder_sent_at |-> NULL]

NewPayment(u, charge, star, ptype, rec, t) ==
    [user_id |-> u, charge_id |-> charge, star_tx_id |-> star,
     payment_type |-> ptype, is_recurring |-> rec, created_at |-> t,
     subscription_id |-> NULL]

(* A store whose only unique index is the one on charge_id. *)
UniqueViolationChargeOnly(ps, charge, star) ==
    \E i \in 1..Len(ps) : charge # NULL /\ ps[i].charge_id = charge

(* uniq_payments_charge_id / uniq_payments_star_tx: each unique when non-null *)
UniqueViolation(ps, charge, star) ==
    \E i \in 1..Len(ps) :
        \/ charge # NULL /\ ps[i].charge_id = charge
        \/ star # NULL /\ ps[i].star_tx_id = star

(* SELECT ... WHERE user_id = u AND status IN ('active','grace')
   ORDER BY expires_at DESC LIMIT 1: the candidate ids (ties are unordered) *)
ActiveSubIds(s, u) ==
    {i \in 1..Len(s) : s[i].user_id = u /\ s[i].status \in {"active", "grace"}}

TopActiveSubIds(s, u) ==
    {i \in ActiveSubIds(s, u) :
        \A j \in ActiveSubIds(s, u) : s[j].expires_at <= s[i].expires_at}

(* ---- initial state: empty tables, all tasks idle ---- *)
NoRow == [user_id |-> 0, status |-> "none", is_recurring |-> FALSE,
          expires_at |-> NULL, grace_until |-> NULL, grace_started_at |-> NULL,
          reminder_sent_at |-> NULL]
IdleHandler == [pc |-> "idle", ev |-> 0, pay |-> 0, sub |-> 0, row |-> NoRow,
                exp |-> NULL]
IdleSweep == [pc |-> "idle", now |-> NULL, todo |-> {}, cur |-> 0, user |-> 0,
              moved |-> FALSE, wl |-> FALSE, errors |-> 0]
IdleReconcile == [pc |-> "idle", last |-> NULL, from |-> NULL, to |-> NULL,
                  known |-> {}, offset |-> 0, page |-> <<>>, i |-> 0,
                  max |-> NULL, new |-> 0, sub |-> 0, exp |-> NULL]
InitObs == [runs |-> 0, recStars |-> {}, recCursor |-> NULL, recWrites |-> 0]

(* send_reminders is not running; last: the time of its last completed run *)
IdleReminders == [pc |-> "idle", now |-> NULL, todo |-> {}, cur |-> NoRow,
                  last |-> NULL]

(* handle_join_request is not running; was: the result of burn_whitelist,
   has: the result of has_active_access *)
JoinTasks == 1..NumJoinTasks
IdleJoin == [pc |-> "idle", user |-> 0, was |-> FALSE, has |-> FALSE]
InitJoinLog == [grants |-> 0, joins |-> 0, burned |-> 0, approvals |-> 0,
                offers |-> 0]

(* no call of the wrapper has been made; attempt: index of the retry loop,
   queued: operations this call has put on the queue, result: how the last
   call ended, last: how the last attempt failed and the sleep that followed *)
NoAttempt == [out |-> "none", signal |-> 0, slept |-> 0]
IdleCall == [pc |-> "idle", attempt |-> 0, queued |-> 0, result |-> "none",
             last |-> NoAttempt]

(* the tasks that share a circuit breaker *)
BreakerTasks == 1..NumBreakerTasks

(* a request that has not reached the rate limiter *)
Callers == 1..NumCallers
Keys == 1..NumKeys
IdleCaller == [pc |-> "idle", key |-> 0, allowed |-> FALSE]

(* finalize_access has not been started *)
GrantTasks == 1..NumGrantTasks
IdleGrant == [pc |-> "idle", user |-> 0, attempt |-> 0]

(* OperationQueue.__init__; pc and op are the drain's position and the
   operation it has popped *)
NoOp == [id |-> 0, attempts |-> 0]
NewQueue == [queue |-> <<>>, processing |-> FALSE, pc |-> "idle", op |-> NoOp]

(* CircuitBreaker.__init__: closed, counters zero, _state_changed_at the time
   of construction; pc is the position of the call holding the lock *)
NewBreaker(t) ==
    [state |-> "closed", state_changed_at |-> t, total_calls |-> 0,
     consecutive_failures |-> 0, consecutive_successes |-> 0, pc |-> "idle"]

Init ==
    /\ now = Epoch
    /\ ticks = 0
    /\ ledger = <<>>
    /\ users = {}
    /\ payments = <<>>
    /\ subs = <<>>
    /\ whitelist = {}
    /\ cursor = NULL
    /\ hs = [h \in Handlers |-> IdleHandler]
    /\ sw = IdleSweep
    /\ rc = IdleReconcile
    /\ banCalls = [u \in Users |-> 0]
    /\ obs = InitObs
    /\ sw2 = IdleSweep
    /\ rc2 = IdleReconcile
    /\ kick_enabled = "unset"
    /\ rem = IdleReminders
    /\ reminders = <<>>
    /\ cbNow = 0
    /\ cb = NewBreaker(0)
    /\ cbHist = <<>>
    /\ opq = NewQueue
    /\ opLog = <<>>
    /\ fa = [t \in GrantTasks |-> IdleGrant]
    /\ api = [up |-> TRUE, outages |-> 0]
    /\ approved = {}
    /\ jn = [j \in JoinTasks |-> IdleJoin]
    /\ joinLog = InitJoinLog
    /\ rl = [k \in Keys |-> <<>>]
    /\ rlNow = 0
    /\ rlTasks = [c \in Callers |-> IdleCaller]
    /\ rlLog = <<>>
    /\ rs = IdleCall
    /\ ct = [c \in BreakerTasks |-> "idle"]

(* obs.runs counts the sweep runs started since the clock last moved and
   since a task other than the sweep last wrote a subscription or payment. *)
Foreign(o) == [o EXCEPT !.runs = 0]

(* ---- environment ---- *)
AllIdle ==
    /\ \A h \in Handlers : hs[h].pc = "idle"
    /\ sw.pc = "idle"
    /\ rc.pc = "idle"
    /\ rem.pc = "idle"
    /\ sw2.pc = "idle"
    /\ rc2.pc = "idle"

(* Time passes in steps of an hour or more; a task run takes seconds (store
   calls time out after 60 s), so the clock moves between task runs. *)
TickBy(d) ==
    /\ ticks < MaxTicks
    /\ AllIdle
    /\ now' = now + d
    /\ ticks' = ticks + 1
    /\ obs' = [obs EXCEPT !.runs = 0]
    /\ UNCHANGED <<ledger, users, payments, subs, whitelist, cursor, hs, sw,
                   rc, banCalls, OtherVars>>

Tick == TickBy(Jump(ticks))

(* Between reconciliation runs: long enough for a transaction to be older
   than the cursor a first run initialises, and still inside its window. *)
RecJump(k) == Days(CURSOR_INIT_DAYS + 1)

RecTick == TickBy(RecJump(ticks))

(* A user pays: the provider records a transaction, whose id is the charge id
   of the notification the webhook may deliver.  rec: a recurring
   subscription payment; prov: the notification's provider_payment_charge_id,
   the transaction id again or NULL (absent, or an id of another kind). *)
PayAmount(u, rec, prov, amt) ==
    /\ prov \in {NULL, Len(ledger) + 1}
    /\ ledger' = Append(ledger, [id |-> Len(ledger) + 1, date |-> now,
                                 user |-> u, recurring |-> rec,
                                 provider |-> prov, amount |-> amt])
    /\ UNCHANGED <<now, ticks, users, payments, subs, whitelist, cursor, hs,
                   sw, rc, banCalls, obs, OtherVars>>

(* a payment of the subscription price *)
Pay(u, rec, prov) == PayAmount(u, rec, prov, SUB_STARS)

(* db.grant_whitelist / db.revoke_whitelist, from the owner commands *)
grant_whitelist(u) ==
    /\ u \notin whitelist
    /\ whitelist' = whitelist \cup {u}
    /\ UNCHANGED <<now, ticks, ledger, users, payments, subs, cursor, hs, sw,
                   rc, banCalls, obs, OtherVars>>

revoke_whitelist(u) ==
    /\ u \in whitelist
    /\ whitelist' = whitelist \ {u}
    /\ UNCHANGED <<now, ticks, ledger, users, payments, subs, cursor, hs, sw,
                   rc, banCalls, obs, OtherVars>>

(* ---- handle_successful_payment, one webhook task per delivery ---- *)
HandlerRest == <<now, ticks, ledger, whitelist, cursor, sw, rc, banCalls,
                 OtherVars>>

(* The webhook transport delivers the notification of transaction k to a free
   task; the handler's first store call is db.upsert_user. *)
HUpsertUser(h, k) ==
    /\ hs[h].pc = "idle"
    /\ \A g \in Handlers : g < h => hs[g].pc # "idle"
    /\ k \in 1..Len(ledger)
    /\ users' = users \cup {ledger[k].user}
    /\ hs' = [hs EXCEPT ![h] = [IdleHandler EXCEPT !.pc = "insert", !.ev = k]]
    /\ UNCHANGED <<HandlerRest, payments, subs, obs>>

(* db.insert_payment_idempotent: the row, or None on a unique violation *)
insert_payment_idempotent(ps, u, charge, star, ptype, rec, t) ==
    IF UniqueViolation(ps, charge, star)
    THEN ps
    ELSE Append(ps, NewPayment(u, charge, star, ptype, rec, t))

HInsertPayment(h) ==
    LET e == ledger[hs[h].ev]
        ps == insert_payment_idempotent(payments, e.user, e.id, e.provider,
                  IF e.recurring THEN "recurring_initial" ELSE "one_time",
                  e.recurring, now)
    IN  /\ hs[h].pc = "insert"
        /\ payments' = ps
        /\ IF ps = payments
           THEN /\ hs' = [hs EXCEPT ![h].pc = "duplicate"]
                /\ obs' = obs
           ELSE /\ hs' = [hs EXCEPT ![h].pc = "begin", ![h].pay = Len(ps)]
                /\ obs' = Foreign(obs)
        /\ UNCHANGED <<HandlerRest, users, subs>>

(* if not payment_record: the user is answered "Payment already processed"
   and the handler returns *)
HAnswerDuplicate(h) ==
    /\ hs[h].pc = "duplicate"
    /\ hs' = [hs EXCEPT ![h] = IdleHandler]
    /\ UNCHANGED <<HandlerRest, users, payments, subs, obs>>

(* process_subscription_payment, first statement of the repeatable-read
   transaction: the snapshot is taken and existing_sub is selected. *)
HBegin(h) ==
    LET e == ledger[hs[h].ev]
        top == TopActiveSubIds(subs, e.user)
    IN  /\ hs[h].pc = "begin"
        /\ \E s \in (IF top = {} THEN {0} ELSE top) :
              hs' = [hs EXCEPT ![h].pc = "commit", ![h].sub = s,
                        ![h].row = IF s = 0 THEN NoRow ELSE subs[s],
                        ![h].exp = IF e.recurring
                                   THEN e.date + Days(SUBSCRIPTION_PERIOD_DAYS)
                                   ELSE now + Days(PLAN_DAYS)]
        /\ UNCHANGED <<HandlerRest, users, payments, subs, obs>>

(* UPDATE subscriptions ... WHERE subscription_id = id (db.py 165-179) *)
ExtendSub(s, id, rec, exp) ==
    [s EXCEPT ![id] = [@ EXCEPT !.status = "active", !.is_recurring = rec,
                                !.expires_at = Max(@, exp),
                                !.grace_until = NULL,
                                !.grace_started_at = NULL]]

(* The rest of the transaction and its commit: update or insert the
   subscription, link the payment.  An UPDATE of a row that another
   statement changed after the snapshot fails (serialization failure) and
   the transaction rolls back. *)
HCommitOn(h, rest) ==
    LET e == ledger[hs[h].ev]
        id == hs[h].sub
    IN  /\ hs[h].pc = "commit"
        /\ IF id # 0 /\ subs[id] # hs[h].row
           THEN /\ hs' = [hs EXCEPT ![h] = IdleHandler]
                /\ UNCHANGED <<subs, payments, obs>>
           ELSE /\ subs' = IF id # 0
                           THEN ExtendSub(subs, id, e.recurring, hs[h].exp)
                           ELSE Append(subs, NewSub(e.user, e.recurring,
                                                    hs[h].exp))
                /\ payments' = [payments EXCEPT ![hs[h].pay].subscription_id =
                                    IF id # 0 THEN id ELSE Len(subs) + 1]
                /\ obs' = Foreign(obs)
                /\ hs' = [hs EXCEPT ![h] = IdleHandler]
        /\ UNCHANGED <<rest, users>>

HCommit(h) == HCommitOn(h, HandlerRest)

(* A store call of the handler raises (connection lost, timeout ...): an open
   transaction rolls back and control goes to the except block, where the
   error is logged, the update is queued for manual review, the user is told
   the payment was received and the handler returns normally.  An error
   raised later inside the transaction leaves the tables as one raised at its
   first statement does, so the transaction fails at "begin". *)
HStoreErrorOn(h, rest) ==
    /\ hs[h].pc \in {"insert", "begin"}
    /\ hs' = [hs EXCEPT ![h] = IdleHandler]
    /\ UNCHANGED <<rest, users, payments, subs, obs>>

HStoreError(h) == HStoreErrorOn(h, HandlerRest)

(* ---- check_subscriptions, the hourly state sweep ---- *)
SweepRest == <<now, ticks, ledger, users, payments, whitelist, cursor, hs,
               rc, ResilienceVars, ReminderVars, FlagVars, ExtraVars,
               SecondReconcile>>

Snapshots(s, ids) == {[id |-> i, row |-> s[i]] : i \in ids}

(* first query of the sweep (scheduler.py 43-48) *)
ExpiredActive(s, t) ==
    {i \in 1..Len(s) :
        /\ s[i].status = "active"
        /\ s[i].expires_at < t
        /\ \/ s[i].grace_started_at = NULL
           \/ s[i].grace_started_at < t - Hours(DEBOUNCE_HOURS)}

(* second query of the sweep (scheduler.py 130-134) *)
ExpiredGrace(s, t) ==
    {i \in 1..Len(s) : s[i].status = "grace" /\ s[i].grace_until < t}

(* A grace statement that changes no row. *)
set_grace_none(s, u, gu, t) == s

(* A grace deadline counted from the time of the sweep. *)
GraceUntilFromSweep(row, t) == t + Hours(GRACE_HOURS)

(* grace_until = sub['expires_at'] + timedelta(hours=settings.grace_hours) *)
GraceUntil(row, t) == row.expires_at + Hours(GRACE_HOURS)

(* db.set_grace: every active row of the user *)
set_grace(s, u, gu, t) ==
    [i \in 1..Len(s) |->
        IF s[i].user_id = u /\ s[i].status = "active"
        THEN [s[i] EXCEPT !.status = "grace", !.grace_until = gu,
                          !.grace_started_at = t]
        ELSE s[i]]

(* An expiry statement that also takes active rows. *)
set_expired_any(s, u) ==
    [i \in 1..Len(s) |->
        IF s[i].user_id = u /\ s[i].status \in {"active", "grace"}
        THEN [s[i] EXCEPT !.status = "expired"]
        ELSE s[i]]

(* An expiry statement that writes the wrong status. *)
set_expired_as_active(s, u) ==
    [i \in 1..Len(s) |->
        IF s[i].user_id = u /\ s[i].status = "grace"
        THEN [s[i] EXCEPT !.status = "active"]
        ELSE s[i]]

(* db.set_expired: every grace row of the user *)
set_expired(s, u) ==
    [i \in 1..Len(s) |->
        IF s[i].user_id = u /\ s[i].status = "grace"
        THEN [s[i] EXCEPT !.status = "expired"]
        ELSE s[i]]

(* A lookup that finds no entry. *)
is_whitelisted_never(wl, u) == FALSE

(* db.is_whitelisted *)
is_whitelisted(wl, u) == u \in wl

(* The steps of a run of check_subscriptions, for the task whose record is
   me (next value meNext); other is the record of the other run. *)
SweepStartOn(me, meNext, other) ==
    /\ me.pc = "idle"
    /\ meNext = [IdleSweep EXCEPT !.pc = "grace", !.now = now,
                    !.todo = Snapshots(subs, ExpiredActive(subs, now))]
    /\ obs' = [obs EXCEPT !.runs = IF @ >= 1 THEN 2 ELSE 1]
    /\ UNCHANGED <<SweepRest, other, subs, banCalls>>

(* the run's counter of failures, after calls of which failed were caught *)
Caught(errors, failed) == errors + failed

(* body of the first loop: set_grace, then the grace notification, which
   goes through (sent) or raises and is caught *)
SweepSetGraceOn(me, meNext, other) ==
    /\ me.pc = "grace"
    /\ \E r \in me.todo, sent \in BOOLEAN :
          /\ subs' = set_grace(subs, r.row.user_id, GraceUntil(r.row, me.now),
                               now)
          /\ meNext = [me EXCEPT !.todo = @ \ {r},
                          !.errors = Caught(@, IF sent THEN 0 ELSE 1)]
    /\ UNCHANGED <<SweepRest, other, banCalls, obs>>

SweepFetchExpiredOn(me, meNext, other) ==
    /\ me.pc = "grace"
    /\ me.todo = {}
    /\ meNext = [me EXCEPT !.pc = "expire",
                    !.todo = Snapshots(subs, ExpiredGrace(subs, me.now))]
    /\ UNCHANGED <<SweepRest, other, subs, banCalls, obs>>

(* body of the second loop, up to the whitelist lookup *)
SweepSetExpiredOn(me, meNext, other) ==
    /\ me.pc = "expire"
    /\ \E r \in me.todo :
          /\ subs' = set_expired(subs, r.row.user_id)
          /\ meNext = [me EXCEPT !.pc = "whitelist", !.todo = @ \ {r},
                          !.cur = r.id, !.user = r.row.user_id,
                          !.moved = (subs' # subs)]
    /\ UNCHANGED <<SweepRest, other, banCalls, obs>>

(* the whitelist lookup; for a whitelisted user the expiry notification
   follows at once, and goes through (sent) or raises and is caught *)
SweepIsWhitelistedOn(me, meNext, other) ==
    /\ me.pc = "whitelist"
    /\ LET w == is_whitelisted(whitelist, me.user)
       IN  IF w
           THEN \E sent \in BOOLEAN :
                   meNext = [me EXCEPT !.wl = w, !.pc = "expire",
                                !.errors = Caught(@, IF sent THEN 0 ELSE 1)]
           ELSE meNext = [me EXCEPT !.wl = w, !.pc = "ban"]
    /\ UNCHANGED <<SweepRest, other, subs, banCalls, obs>>

(* bot.ban_chat_member is called and goes through (banned) or raises and is
   caught; then the expiry notification, likewise *)
SweepBanOn(me, meNext, other) ==
    /\ me.pc = "ban"
    /\ banCalls' = [banCalls EXCEPT ![me.user] = @ + 1]
    /\ \E banned, sent \in BOOLEAN :
          meNext = [me EXCEPT !.pc = "expire",
                       !.errors = Caught(@, (IF banned THEN 0 ELSE 1)
                                            + (IF sent THEN 0 ELSE 1))]
    /\ UNCHANGED <<SweepRest, other, subs, obs>>

SweepDoneOn(me, meNext, other) ==
    /\ me.pc = "expire"
    /\ me.todo = {}
    /\ meNext = IdleSweep
    /\ UNCHANGED <<SweepRest, other, subs, banCalls, obs>>

(* the scheduler's job *)
SweepStart == SweepStartOn(sw, sw', sw2)
SweepSetGrace == SweepSetGraceOn(sw, sw', sw2)
SweepFetchExpired == SweepFetchExpiredOn(sw, sw', sw2)
SweepSetExpired == SweepSetExpiredOn(sw, sw', sw2)
SweepIsWhitelisted == SweepIsWhitelistedOn(sw, sw', sw2)
SweepBan == SweepBanOn(sw, sw', sw2)
SweepDone == SweepDoneOn(sw, sw', sw2)

(* a second run of the job that overlaps the first (the scheduler of a second
   process on the same store) *)
Sweep2Start == SweepStartOn(sw2, sw2', sw)
Sweep2SetGrace == SweepSetGraceOn(sw2, sw2', sw)
Sweep2FetchExpired == SweepFetchExpiredOn(sw2, sw2', sw)
Sweep2SetExpired == SweepSetExpiredOn(sw2, sw2', sw)
Sweep2IsWhitelisted == SweepIsWhitelistedOn(sw2, sw2', sw)
Sweep2Ban == SweepBanOn(sw2, sw2', sw)
Sweep2Done == SweepDoneOn(sw2, sw2', sw)

(* ---- reconcile_star_transactions ---- *)
RecRest == <<now, ticks, ledger, users, whitelist, hs, sw, banCalls,
             RecOther>>

(* existing_star_tx_ids: one query over the overlap window *)
ExistingStarTxIds(ps, since) ==
    {ps[i].star_tx_id : i \in {j \in 1..Len(ps) : ps[j].created_at >= since}}
        \ {NULL}

(* A maximum that starts at the lower end of the window. *)
InitialMaxFromWindow(last, from) == from

(* max_tx_date = last_tx_at *)
InitialMax(last, from) == last

(* db.get_active_subscription *)
get_active_subscription(s, u) ==
    IF TopActiveSubIds(s, u) = {} THEN {0} ELSE TopActiveSubIds(s, u)

(* UPDATE subscriptions ... WHERE user_id = u
   AND status IN ('active','grace','expired')   (reconcile.py 98-106) *)
ReconcileExtend(s, u, exp) ==
    [i \in 1..Len(s) |->
        IF s[i].user_id = u /\ s[i].status \in {"active", "grace", "expired"}
        THEN [s[i] EXCEPT !.expires_at = exp, !.status = "active",
                          !.grace_until = NULL, !.grace_started_at = NULL]
        ELSE s[i]]

(* The steps of a run of reconcile_star_transactions, for the task whose
   record is me (next value meNext); other is the record of the other run.
   First get_reconcile_cursor (initialising a missing row), the window and
   the deduplication query. *)
RecStartOn(me, meNext, other) ==
    LET last == IF cursor = NULL THEN now - Days(CURSOR_INIT_DAYS) ELSE cursor
        from == IF last # NULL THEN last - Days(RECONCILE_WINDOW_DAYS)
                               ELSE now - Days(RECONCILE_WINDOW_DAYS)
    IN  /\ me.pc = "idle"
        /\ cursor' = last
        /\ meNext = [IdleReconcile EXCEPT !.pc = "fetch", !.last = last,
                     !.from = from, !.to = now,
                     !.known = ExistingStarTxIds(payments,
                                   from - Days(DEDUP_EXTRA_DAYS)),
                     !.max = InitialMax(last, from)]
        /\ obs' = [obs EXCEPT !.recCursor = last, !.recWrites = 0,
                              !.recStars = ExistingStarTxIds(payments, 0)]
        /\ UNCHANGED <<RecRest, other, payments, subs>>

(* position after transaction me.i of the page has been dealt with *)
RecAdvance(r) ==
    IF r.i < Len(r.page)
    THEN [r EXCEPT !.pc = "tx", !.i = @ + 1]
    ELSE [r EXCEPT !.offset = @ + Len(r.page),
                   !.pc = IF Len(r.page) < PAGE_LIMIT THEN "cursor" ELSE "fetch"]

(* bot.get_star_transactions(offset, limit=100) *)
RecFetchPageOn(me, meNext, other) ==
    LET hi == IF me.offset + PAGE_LIMIT < Len(ledger)
              THEN me.offset + PAGE_LIMIT ELSE Len(ledger)
        page == SubSeq(ledger, me.offset + 1, hi)
    IN  /\ me.pc = "fetch"
        /\ meNext = IF page = <<>>
                 THEN [me EXCEPT !.pc = "cursor"]
                 ELSE [me EXCEPT !.pc = "tx", !.page = page, !.i = 1]
        /\ UNCHANGED <<RecRest, other, payments, subs, cursor, obs>>

(* the page fetch raises: logged, the paging loop is left *)
RecFetchErrorOn(me, meNext, other) ==
    /\ me.pc = "fetch"
    /\ meNext = [me EXCEPT !.pc = "cursor"]
    /\ UNCHANGED <<RecRest, other, payments, subs, cursor, obs>>

(* one transaction of the page: window test, cursor tracking, deduplication
   and the idempotent insert *)
RecTxOn(me, meNext, other) ==
    LET tx == me.page[me.i]
        inWin == ~(tx.date < me.from \/ tx.date > me.to)
        mx == IF inWin /\ (me.max = NULL \/ tx.date > me.max)
              THEN tx.date ELSE me.max
        r1 == [me EXCEPT !.max = mx]
        ps == insert_payment_idempotent(payments, tx.user, NULL, tx.id,
                                        "recurring_renewal", TRUE, now)
    IN  /\ me.pc = "tx"
        /\ IF ~inWin \/ tx.id \in me.known
           THEN /\ meNext = RecAdvance(r1)
                /\ UNCHANGED <<payments, obs>>
           ELSE IF tx.user \notin users
           THEN \* foreign key violation: not a UniqueViolationError
                /\ meNext = [r1 EXCEPT !.pc = "cursor"]
                /\ UNCHANGED <<payments, obs>>
           ELSE IF ps = payments
           THEN /\ meNext = RecAdvance(r1)
                /\ UNCHANGED <<payments, obs>>
           ELSE /\ payments' = ps
                /\ meNext = [r1 EXCEPT !.pc = "getsub", !.new = @ + 1]
                /\ obs' = [Foreign(obs) EXCEPT !.recWrites = @ + 1]
        /\ UNCHANGED <<RecRest, other, subs, cursor>>

RecGetSubOn(me, meNext, other) ==
    LET tx == me.page[me.i]
    IN  /\ me.pc = "getsub"
        /\ \E s \in get_active_subscription(subs, tx.user) :
              meNext = [me EXCEPT !.pc = "apply", !.sub = s,
                        !.exp = IF s = 0
                                THEN tx.date + Days(RENEWAL_DAYS)
                                ELSE Max(subs[s].expires_at,
                                         tx.date + Days(RENEWAL_DAYS))]
        /\ UNCHANGED <<RecRest, other, payments, subs, cursor, obs>>

RecApplyOn(me, meNext, other) ==
    LET tx == me.page[me.i]
    IN  /\ me.pc = "apply"
        /\ subs' = IF me.sub # 0
                   THEN ReconcileExtend(subs, tx.user, me.exp)
                   ELSE Append(subs, NewSub(tx.user, TRUE, me.exp))
        /\ meNext = RecAdvance(me)
        /\ obs' = [Foreign(obs) EXCEPT !.recWrites = @ + 1]
        /\ UNCHANGED <<RecRest, other, payments, cursor>>

(* a store call after the insert raises: caught by the paging loop's except *)
RecStoreErrorOn(me, meNext, other) ==
    /\ me.pc \in {"getsub", "apply"}
    /\ meNext = [me EXCEPT !.pc = "cursor"]
    /\ UNCHANGED <<RecRest, other, payments, subs, cursor, obs>>

(* A run that leaves the cursor as it is. *)
NextCursorKept(max, cur) == cur

(* if max_tx_date: await db.update_reconcile_cursor(max_tx_date) *)
NextCursor(max, cur) == IF max # NULL THEN max ELSE cur

RecUpdateCursorOn(me, meNext, other) ==
    /\ me.pc = "cursor"
    /\ cursor' = NextCursor(me.max, cursor)
    /\ meNext = IdleReconcile
    /\ obs' = [obs EXCEPT !.recCursor = NULL, !.recWrites = 0,
                          !.recStars = {}]
    /\ UNCHANGED <<RecRest, other, payments, subs>>

(* the scheduler's job *)
RecStart == RecStartOn(rc, rc', rc2)
RecFetchPage == RecFetchPageOn(rc, rc', rc2)
RecFetchError == RecFetchErrorOn(rc, rc', rc2)
RecTx == RecTxOn(rc, rc', rc2)
RecGetSub == RecGetSubOn(rc, rc', rc2)
RecApply == RecApplyOn(rc, rc', rc2)
RecStoreError == RecStoreErrorOn(rc, rc', rc2)
RecUpdateCursor == RecUpdateCursorOn(rc, rc', rc2)

(* a second run of the job that overlaps the first (the scheduler of a second
   process on the same store) *)
Rec2Start == RecStartOn(rc2, rc2', rc)
Rec2FetchPage == RecFetchPageOn(rc2, rc2', rc)
Rec2FetchError == RecFetchErrorOn(rc2, rc2', rc)
Rec2Tx == RecTxOn(rc2, rc2', rc)
Rec2GetSub == RecGetSubOn(rc2, rc2', rc)
Rec2Apply == RecApplyOn(rc2, rc2', rc)
Rec2StoreError == RecStoreErrorOn(rc2, rc2', rc)
Rec2UpdateCursor == RecUpdateCursorOn(rc2, rc2', rc)

(* ---- specifications ---- *)
HandlerNext ==
    \/ \E h \in Handlers, k \in 1..Len(ledger) : HUpsertUser(h, k)
    \/ \E h \in Handlers : HInsertPayment(h)
    \/ \E h \in Handlers : HAnswerDuplicate(h)
    \/ \E h \in Handlers : HBegin(h)
    \/ \E h \in Handlers : HCommit(h)
    \/ \E h \in Handlers : HStoreError(h)

SweepNext ==
    \/ SweepStart
    \/ SweepSetGrace
    \/ SweepFetchExpired
    \/ SweepSetExpired
    \/ SweepIsWhitelisted
    \/ SweepBan
    \/ SweepDone

WhitelistNext ==
    \/ \E u \in Users : grant_whitelist(u)
    \/ \E u \in Users : revoke_whitelist(u)

ReconcileNext ==
    \/ RecStart
    \/ RecFetchPage
    \/ RecFetchError
    \/ RecTx
    \/ RecGetSub
    \/ RecApply
    \/ RecStoreError
    \/ RecUpdateCursor

(* Webhook ingestion and the sweep, with the owner's whitelist commands.  No
   task of this specification reads star_tx_id of another payment, so the
   notifications carry no provider id. *)
Next ==
    \/ Tick
    \/ \E u \in Users, rec \in BOOLEAN :
          Len(ledger) < MaxTx /\ Pay(u, rec, NULL)
    \/ HandlerNext
    \/ SweepNext
    \/ WhitelistNext

Spec == Init /\ [][Next]_vars

(* The same without whitelist commands: no user ever holds a whitelist entry. *)
NextNoWhitelist ==
    \/ Tick
    \/ \E u \in Users, rec \in BOOLEAN :
          Len(ledger) < MaxTx /\ Pay(u, rec, NULL)
    \/ HandlerNext
    \/ SweepNext

SpecNoWhitelist == Init /\ [][NextNoWhitelist]_vars

(* Webhook ingestion and reconciliation over the provider's transactions. *)
NextReconcile ==
    \/ RecTick
    \/ \E u \in Users, rec \in BOOLEAN, prov \in {NULL, Len(ledger) + 1} :
          Len(ledger) < MaxRecTx /\ Pay(u, rec, prov)
    \/ HandlerNext
    \/ ReconcileNext

SpecReconcile == Init /\ [][NextReconcile]_vars

(* Reconciliation runs are scheduled again and again (IntervalTrigger), a run
   goes on to its end, and failures are transient: a call that is made again
   and again succeeds in the end.  Nothing is assumed of the webhook. *)
SpecReconcileFair ==
    /\ SpecReconcile
    /\ WF_vars(RecStart)
    /\ SF_vars(RecFetchPage)
    /\ WF_vars(RecTx)
    /\ SF_vars(RecGetSub)
    /\ SF_vars(RecApply)
    /\ WF_vars(RecUpdateCursor)

(* Two overlapping runs of the reconciliation, at one clock value (a run
   takes seconds). *)
Reconcile2Next ==
    \/ Rec2Start
    \/ Rec2FetchPage
    \/ Rec2FetchError
    \/ Rec2Tx
    \/ Rec2GetSub
    \/ Rec2Apply
    \/ Rec2StoreError
    \/ Rec2UpdateCursor

NextReconcileOverlap ==
    \/ \E u \in Users, rec \in BOOLEAN, prov \in {NULL, Len(ledger) + 1} :
          Len(ledger) < MaxRecTx /\ Pay(u, rec, prov)
    \/ HandlerNext
    \/ ReconcileNext
    \/ Reconcile2Next

SpecReconcileOverlap == Init /\ [][NextReconcileOverlap]_vars

(* ---- kick control commands (owners) ---- *)
FlagRest == <<now, ticks, ledger, users, payments, subs, whitelist, cursor,
              hs, sw, rc, banCalls, obs, ResilienceVars, ReminderVars,
              SecondSweep, ExtraVars,
               SecondReconcile>>

(* db.set_feature_flag('kick_enabled', value) *)
set_feature_flag(value) ==
    /\ kick_enabled # value
    /\ kick_enabled' = value
    /\ UNCHANGED FlagRest

cmd_kicks_off == set_feature_flag("off")
cmd_kicks_on == set_feature_flag("on")

(* db.is_kicks_enabled: the stored flag, or KICK_ENABLED of the environment
   (default 'false') when the flag is not stored *)
is_kicks_enabled == kick_enabled = "on"

(* The sweep with the owners' commands, one payment. *)
NextKicks ==
    \/ Tick
    \/ \E u \in Users, rec \in BOOLEAN :
          Len(ledger) < MaxRecTx /\ Pay(u, rec, NULL)
    \/ HandlerNext
    \/ SweepNext
    \/ cmd_kicks_off
    \/ cmd_kicks_on

SpecKicks == Init /\ [][NextKicks]_vars

(* Two overlapping runs of the sweep, one payment. *)
Sweep2Next ==
    \/ Sweep2Start
    \/ Sweep2SetGrace
    \/ Sweep2FetchExpired
    \/ Sweep2SetExpired
    \/ Sweep2IsWhitelisted
    \/ Sweep2Ban
    \/ Sweep2Done

NextOverlap ==
    \/ Tick
    \/ \E u \in Users, rec \in BOOLEAN :
          Len(ledger) < MaxRecTx /\ Pay(u, rec, NULL)
    \/ HandlerNext
    \/ SweepNext
    \/ Sweep2Next

SpecOverlap == Init /\ [][NextOverlap]_vars

(* ---- send_reminders, the daily reminder job ---- *)
RemRest == <<now, ticks, ledger, users, payments, whitelist, cursor, hs, sw,
             rc, banCalls, obs, ResilienceVars, SecondSweep, FlagVars,
             ExtraVars,
               SecondReconcile>>

(* The reminder job runs every 24 hours; the first run looked at here falls
   half a day after the lead time of a subscription paid at the start has
   begun. *)
RemJump(k) ==
    IF k = 0 THEN Days(PLAN_DAYS) - Days(days_before_expire) + Hours(12)
    ELSE Days(1)

RemTick ==
    /\ ticks < MaxRemTicks
    /\ AllIdle
    /\ now' = now + RemJump(ticks)
    /\ ticks' = ticks + 1
    /\ UNCHANGED <<ledger, users, payments, subs, whitelist, cursor, hs, sw,
                   rc, banCalls, obs, OtherVars>>

(* reminder_sent_at IS NULL OR reminder_sent_at < $1 - INTERVAL '1 day' *)
Due(row, t) ==
    \/ row.reminder_sent_at = NULL
    \/ row.reminder_sent_at < t - Days(1)

(* the rows of the query: active, not recurring, expiring within the lead
   time, no reminder in the last day *)
ExpiringSoon(s, t) ==
    {i \in 1..Len(s) :
        /\ s[i].status = "active"
        /\ ~s[i].is_recurring
        /\ s[i].expires_at >= t
        /\ s[i].expires_at <= t + Days(days_before_expire)
        /\ Due(s[i], t)}

RemStart ==
    /\ rem.pc = "idle"
    /\ rem' = [rem EXCEPT !.pc = "loop", !.now = now,
                          !.todo = Snapshots(subs, ExpiringSoon(subs, now))]
    /\ UNCHANGED <<RemRest, subs, reminders>>

(* bot.send_message went through *)
RemSend ==
    /\ rem.pc = "loop"
    /\ \E x \in rem.todo :
          /\ rem' = [rem EXCEPT !.pc = "mark", !.todo = @ \ {x}, !.cur = x]
          /\ reminders' = Append(reminders,
                                 [sub |-> x.id, expires |-> x.row.expires_at,
                                  at |-> now])
    /\ UNCHANGED <<RemRest, subs>>

(* bot.send_message raised: the row is skipped *)
RemSendFailed ==
    /\ rem.pc = "loop"
    /\ \E x \in rem.todo : rem' = [rem EXCEPT !.todo = @ \ {x}]
    /\ UNCHANGED <<RemRest, subs, reminders>>

(* UPDATE subscriptions SET reminder_sent_at = NOW() *)
RemMark ==
    /\ rem.pc = "mark"
    /\ subs' = [subs EXCEPT ![rem.cur.id].reminder_sent_at = now]
    /\ rem' = [rem EXCEPT !.pc = "loop", !.cur = NoRow]
    /\ UNCHANGED <<RemRest, reminders>>

RemDone ==
    /\ rem.pc = "loop"
    /\ rem.todo = {}
    /\ rem' = [IdleReminders EXCEPT !.last = rem.now]
    /\ UNCHANGED <<RemRest, subs, reminders>>

ReminderNext ==
    \/ RemStart
    \/ RemSend
    \/ RemSendFailed
    \/ RemMark
    \/ RemDone

NextReminders ==
    \/ RemTick
    \/ \E u \in Users, rec \in BOOLEAN :
          Len(ledger) < MaxRecTx /\ Pay(u, rec, NULL)
    \/ HandlerNext
    \/ ReminderNext

SpecReminders == Init /\ [][NextReminders]_vars

(* Payments made at the start and late in a plan period, and their
   ingestion. *)
NextRenewal ==
    \/ RemTick
    \/ \E u \in Users, rec \in BOOLEAN :
          Len(ledger) < MaxTx /\ Pay(u, rec, NULL)
    \/ HandlerNext

SpecRenewal == Init /\ [][NextRenewal]_vars

(* The webhook handlers alone, fed notifications of any amount: total_amount
   is an integer (the update parser sees to that), of any value. *)
Amounts == {-1, 0, SUB_STARS}

NextIngest ==
    \/ \E u \in Users, rec \in BOOLEAN, amt \in Amounts :
          Len(ledger) < MaxTx /\ PayAmount(u, rec, NULL, amt)
    \/ HandlerNext

SpecIngest == Init /\ [][NextIngest]_vars

(* ---- CircuitBreaker ---- *)

(* everything but the resilience layer *)
CoreVars == <<now, ticks, ledger, users, payments, subs, whitelist, cursor,
              hs, sw, rc, banCalls, obs, ReminderVars, SecondSweep,
              FlagVars, ExtraVars,
               SecondReconcile>>

BreakerVars == <<cb, cbNow, cbHist>>
QueueVars == <<opq, opLog>>
GrantVars == <<fa, api, approved>>
OutsideBreaker == <<QueueVars, GrantVars, CoreVars>>
OutsideQueue == <<BreakerVars, GrantVars, CoreVars>>
OutsideGrant == <<BreakerVars, QueueVars, CoreVars>>

(* The breaker's clock moves in steps of half a recovery timeout, also while
   a call is waiting for the wrapped operation. *)
CbStep == recovery_timeout \div 2

CbTick ==
    /\ cbNow < MaxCbTicks * CbStep
    /\ cbNow' = cbNow + CbStep
    /\ UNCHANGED <<cb, cbHist, OutsideBreaker>>

should_attempt_reset_any(b, t) == b.state = "open"

should_attempt_reset(b, t) ==
    /\ b.state = "open"
    /\ t - b.state_changed_at >= recovery_timeout

_change_state(b, new_state, t) ==
    [b EXCEPT !.state = new_state, !.state_changed_at = t]

(* call, up to the wrapped operation: count the call, go half-open when the
   timeout has elapsed *)
OnEnter(b, t) ==
    LET b1 == [b EXCEPT !.total_calls = @ + 1]
    IN  IF should_attempt_reset(b1, t)
        THEN _change_state(b1, "half_open", t)
        ELSE b1

(* call, after the wrapped operation returned *)
OnSuccessCloseAtOnce(b, t) ==
    LET b1 == [b EXCEPT !.consecutive_failures = 0,
                        !.consecutive_successes = @ + 1]
    IN  IF b1.state = "half_open"
        THEN _change_state(b1, "closed", t)
        ELSE b1

OnSuccess(b, t) ==
    LET b1 == [b EXCEPT !.consecutive_failures = 0,
                        !.consecutive_successes = @ + 1]
    IN  IF /\ b1.state = "half_open"
           /\ b1.consecutive_successes >= success_threshold
        THEN _change_state(b1, "closed", t)
        ELSE b1

(* call, after the wrapped operation raised an expected_exception *)
OnFailure(b, t) ==
    LET b1 == [b EXCEPT !.consecutive_failures = @ + 1,
                        !.consecutive_successes = 0]
    IN  IF b1.consecutive_failures >= failure_threshold
        THEN IF b1.state # "open" THEN _change_state(b1, "open", t) ELSE b1
        ELSE IF b1.state = "half_open"
             THEN _change_state(b1, "open", t)
             ELSE b1

(* an entry of cbHist: how the call ended and the state it ran in *)
Outcome(out, state) == [out |-> out, state |-> state]

(* A call takes the lock; an open breaker raises at once, otherwise the
   wrapped operation is invoked (pc "func"). *)
CallEnter ==
    /\ cb.pc = "idle"
    /\ cb.total_calls < MaxCalls
    /\ LET b == OnEnter(cb, cbNow)
       IN  IF b.state = "open"
           THEN /\ cb' = b
                /\ cbHist' = Append(cbHist, Outcome("rejected", "open"))
           ELSE /\ cb' = [b EXCEPT !.pc = "func"]
                /\ UNCHANGED cbHist
    /\ UNCHANGED <<cbNow, OutsideBreaker>>

CallSuccess ==
    /\ cb.pc = "func"
    /\ cb' = [OnSuccess(cb, cbNow) EXCEPT !.pc = "idle"]
    /\ cbHist' = Append(cbHist, Outcome("success", cb.state))
    /\ UNCHANGED <<cbNow, OutsideBreaker>>

CallFailure ==
    /\ cb.pc = "func"
    /\ cb' = [OnFailure(cb, cbNow) EXCEPT !.pc = "idle"]
    /\ cbHist' = Append(cbHist, Outcome("failure", cb.state))
    /\ UNCHANGED <<cbNow, OutsideBreaker>>

(* The wrapped operation raised something that is not an expected_exception
   (a cancellation, for one): it passes through, nothing is counted. *)
CallUncounted ==
    /\ cb.pc = "func"
    /\ cb' = [cb EXCEPT !.pc = "idle"]
    /\ cbHist' = Append(cbHist, Outcome("uncounted", cb.state))
    /\ UNCHANGED <<cbNow, OutsideBreaker>>

NextBreaker ==
    \/ CbTick
    \/ CallEnter
    \/ CallSuccess
    \/ CallFailure
    \/ CallUncounted

SpecBreaker == Init /\ [][NextBreaker]_vars

(* ---- CircuitBreaker.call from concurrent tasks ---- *)
BtRest == <<cbNow, opq, opLog, fa, api, approved, now, ticks, ledger, users,
            payments, subs, whitelist, cursor, hs, sw, rc, banCalls, obs,
            ReminderVars, SecondSweep, FlagVars, JoinVars, LimiterVars,
            CallVars, SecondReconcile>>

(* A lock that never holds anybody back. *)
LockFreeAlways(b) == TRUE

(* self._lock is not held: no call is between "async with self._lock" and
   the end of the block *)
LockFree(b) == b.pc = "idle"

(* a task calls breaker.call and reaches "async with self._lock" *)
BtCall(c) ==
    /\ ct[c] = "idle"
    /\ ct' = [ct EXCEPT ![c] = "lock"]
    /\ UNCHANGED <<cb, cbHist, BtRest>>

(* the task gets the lock: total_calls, the reset attempt, and either the
   rejection by the open breaker or the wrapped operation *)
BtAcquire(c) ==
    /\ ct[c] = "lock"
    /\ LockFree(cb)
    /\ cb.total_calls < MaxBtCalls
    /\ LET b == OnEnter(cb, cbNow)
       IN  IF b.state = "open"
           THEN /\ cb' = b
                /\ cbHist' = Append(cbHist, Outcome("rejected", "open"))
                /\ ct' = [ct EXCEPT ![c] = "idle"]
           ELSE /\ cb' = [b EXCEPT !.pc = "func"]
                /\ ct' = [ct EXCEPT ![c] = "func"]
                /\ UNCHANGED cbHist
    /\ UNCHANGED BtRest

(* the wrapped operation of task c returned, raised an expected_exception,
   or raised something else; the lock is released *)
BtSuccess(c) ==
    /\ ct[c] = "func"
    /\ cb' = [OnSuccess(cb, cbNow) EXCEPT !.pc = "idle"]
    /\ cbHist' = Append(cbHist, Outcome("success", cb.state))
    /\ ct' = [ct EXCEPT ![c] = "idle"]
    /\ UNCHANGED BtRest

BtFailure(c) ==
    /\ ct[c] = "func"
    /\ cb' = [OnFailure(cb, cbNow) EXCEPT !.pc = "idle"]
    /\ cbHist' = Append(cbHist, Outcome("failure", cb.state))
    /\ ct' = [ct EXCEPT ![c] = "idle"]
    /\ UNCHANGED BtRest

BtUncounted(c) ==
    /\ ct[c] = "func"
    /\ cb' = [cb EXCEPT !.pc = "idle"]
    /\ cbHist' = Append(cbHist, Outcome("uncounted", cb.state))
    /\ ct' = [ct EXCEPT ![c] = "idle"]
    /\ UNCHANGED BtRest

NextBreakerTasks ==
    \/ CbTick
    \/ \E c \in BreakerTasks : BtCall(c)
    \/ \E c \in BreakerTasks : BtAcquire(c)
    \/ \E c \in BreakerTasks : BtSuccess(c)
    \/ \E c \in BreakerTasks : BtFailure(c)
    \/ \E c \in BreakerTasks : BtUncounted(c)

SpecBreakerTasks == Init /\ [][NextBreakerTasks]_vars

(* ---- OperationQueue ---- *)

(* deque(maxlen=max_size).append: a full deque drops its oldest entry *)
DequeAppend(q, x) ==
    IF Len(q) >= max_size THEN Append(Tail(q), x) ELSE Append(q, x)

(* add: a new operation, attempts 0 *)
QAdd ==
    /\ Len(opLog) < MaxOps
    /\ LET id == Len(opLog) + 1
       IN  /\ opq' = [opq EXCEPT
                        !.queue = DequeAppend(@, [id |-> id, attempts |-> 0])]
           /\ opLog' = Append(opLog, [tries |-> 0, fate |-> "queued"])
    /\ UNCHANGED OutsideQueue

(* process: not re-entered while a drain is running *)
QStart ==
    /\ opq.pc = "idle"
    /\ ~opq.processing
    /\ opq' = [opq EXCEPT !.processing = TRUE, !.pc = "loop"]
    /\ UNCHANGED <<opLog, OutsideQueue>>

(* while self.queue: popleft, attempts += 1, call the handler *)
QPop ==
    /\ opq.pc = "loop"
    /\ opq.queue # <<>>
    /\ LET o == Head(opq.queue)
       IN  /\ opq' = [opq EXCEPT !.queue = Tail(@), !.pc = "handler",
                                 !.op = [o EXCEPT !.attempts = @ + 1]]
           /\ opLog' = [opLog EXCEPT ![o.id].tries = @ + 1,
                                     ![o.id].fate = "attempt"]
    /\ UNCHANGED OutsideQueue

(* the handler returned *)
QHandled ==
    /\ opq.pc = "handler"
    /\ opq' = [opq EXCEPT !.pc = "loop", !.op = NoOp]
    /\ opLog' = [opLog EXCEPT ![opq.op.id].fate = "processed"]
    /\ UNCHANGED OutsideQueue

RequeueAlways(o) == TRUE

(* Re-queue if not too many attempts *)
Requeue(o) == o.attempts < QUEUE_ATTEMPTS

(* the handler raised *)
QRaised ==
    /\ opq.pc = "handler"
    /\ IF Requeue(opq.op)
       THEN /\ opq' = [opq EXCEPT !.queue = DequeAppend(@, opq.op),
                                  !.pc = "loop", !.op = NoOp]
            /\ opLog' = [opLog EXCEPT ![opq.op.id].fate = "queued"]
       ELSE /\ opq' = [opq EXCEPT !.pc = "loop", !.op = NoOp]
            /\ opLog' = [opLog EXCEPT ![opq.op.id].fate = "abandoned"]
    /\ UNCHANGED OutsideQueue

(* the queue is empty: finally, processing = False *)
QFinish ==
    /\ opq.pc = "loop"
    /\ opq.queue = <<>>
    /\ opq' = [opq EXCEPT !.processing = FALSE, !.pc = "idle"]
    /\ UNCHANGED <<opLog, OutsideQueue>>

NextQueue ==
    \/ QAdd
    \/ QStart
    \/ QPop
    \/ QHandled
    \/ QRaised
    \/ QFinish

SpecQueue == Init /\ [][NextQueue]_vars

(* A drain that has started goes on: the loop takes its next step, and the
   handler, whose external calls carry timeouts, comes back. *)
SpecQueueFair ==
    /\ SpecQueue
    /\ WF_vars(QPop)
    /\ WF_vars(QHandled \/ QRaised)
    /\ WF_vars(QFinish)

(* ---- finalize_access ---- *)

(* The messaging API goes down and comes back. *)
ApiFail ==
    /\ api.up
    /\ api.outages < MaxOutages
    /\ api' = [up |-> FALSE, outages |-> api.outages + 1]
    /\ UNCHANGED <<fa, approved, OutsideGrant>>

ApiRecover ==
    /\ ~api.up
    /\ api' = [api EXCEPT !.up = TRUE]
    /\ UNCHANGED <<fa, approved, OutsideGrant>>

(* asyncio.create_task(finalize_access(user_id)), at the end of
   handle_successful_payment *)
FaStart(t, u) ==
    /\ fa[t].pc = "idle"
    /\ fa' = [fa EXCEPT ![t] = [pc |-> "try", user |-> u, attempt |-> 0]]
    /\ UNCHANGED <<api, approved, OutsideGrant>>

(* bot.approve_chat_join_request went through: return True *)
FaApproved(t) ==
    /\ fa[t].pc = "try"
    /\ api.up
    /\ approved' = approved \cup {fa[t].user}
    /\ fa' = [fa EXCEPT ![t].pc = "approved"]
    /\ UNCHANGED <<api, OutsideGrant>>

(* the attempt failed for a transient reason (TelegramRetryAfter, or any
   other exception): sleep and try again, up to max_attempts; then return
   False *)
FaFailed(t) ==
    /\ fa[t].pc = "try"
    /\ ~api.up
    /\ fa' = [fa EXCEPT ![t] =
                 IF fa[t].attempt < max_attempts - 1
                 THEN [@ EXCEPT !.attempt = @ + 1]
                 ELSE [@ EXCEPT !.pc = "gave_up"]]
    /\ UNCHANGED <<api, approved, OutsideGrant>>

(* ---- handle_successful_payment with the grant task it starts ---- *)

(* what the end of the handler leaves alone when it starts finalize_access *)
GrantlessRest == <<now, ticks, ledger, whitelist, cursor, sw, rc, banCalls,
                   cb, cbNow, cbHist, opq, opLog, api, approved,
                   ReminderVars, SecondSweep, FlagVars, ExtraVars,
                   SecondReconcile>>

(* asyncio.create_task(finalize_access(user_id)): a task that is not
   running takes the user *)
Spawn(t, u) ==
    /\ fa[t].pc # "try"
    /\ fa' = [fa EXCEPT ![t] = [pc |-> "try", user |-> u, attempt |-> 0]]

(* the handler's last statement after the subscription was processed; a
   transaction that rolled back went through the except block, whose last
   statement is the same *)
HCommitGrant(h, t) ==
    /\ HCommitOn(h, GrantlessRest)
    /\ Spawn(t, ledger[hs[h].ev].user)

(* the except block after a failed store call: "Still try to give access" *)
HStoreErrorGrant(h, t) ==
    /\ HStoreErrorOn(h, GrantlessRest)
    /\ Spawn(t, ledger[hs[h].ev].user)

(* The retry processor is not started (main.lifespan), so nothing drains the
   operation queue; the tasks and the API are all that runs. *)
NextGrant ==
    \/ ApiFail
    \/ ApiRecover
    \/ \E t \in GrantTasks, u \in Users : FaStart(t, u)
    \/ \E t \in GrantTasks : FaApproved(t) \/ FaFailed(t)

SpecGrant == Init /\ [][NextGrant]_vars

(* Payments, their webhook deliveries and the grant tasks the handlers
   start.  HStoreError: the except block's message.answer raises and the
   handler ends before it starts the task. *)
NextPayGrant ==
    \/ \E u \in Users, rec \in BOOLEAN :
          Len(ledger) < MaxRecTx /\ Pay(u, rec, NULL)
    \/ \E h \in Handlers, k \in 1..Len(ledger) : HUpsertUser(h, k)
    \/ \E h \in Handlers : HInsertPayment(h)
    \/ \E h \in Handlers : HAnswerDuplicate(h)
    \/ \E h \in Handlers : HBegin(h)
    \/ \E h \in Handlers, t \in GrantTasks : HCommitGrant(h, t)
    \/ \E h \in Handlers, t \in GrantTasks : HStoreErrorGrant(h, t)
    \/ \E h \in Handlers : HStoreError(h)
    \/ ApiFail
    \/ ApiRecover
    \/ \E t \in GrantTasks : FaApproved(t) \/ FaFailed(t)

SpecPayGrant == Init /\ [][NextPayGrant]_vars

(* A started task goes on to its end, and the API recovers from an outage. *)
SpecGrantFair ==
    /\ SpecGrant
    /\ WF_vars(ApiRecover)
    /\ \A t \in GrantTasks : WF_vars(FaApproved(t) \/ FaFailed(t))

(* ---- handle_join_request ---- *)
JoinRest == <<now, ticks, ledger, payments, subs, cursor, hs, sw, rc, banCalls,
              obs, cb, cbNow, cbHist, opq, opLog, fa, api, ReminderVars,
              SecondSweep, FlagVars, LimiterVars, CallVars, TaskVars,
              SecondReconcile>>

(* /wl_add: db.grant_whitelist inserts the entry or clears revoked_at *)
cmd_wl_add(u) ==
    /\ joinLog.grants < MaxGrants
    /\ u \notin whitelist
    /\ whitelist' = whitelist \cup {u}
    /\ joinLog' = [joinLog EXCEPT !.grants = @ + 1]
    /\ UNCHANGED <<JoinRest, users, approved, jn>>

(* A join request of user u arrives; the first store call is db.upsert_user. *)
JUpsertUser(j, u) ==
    /\ jn[j].pc = "idle"
    /\ joinLog.joins < MaxJoins
    /\ users' = users \cup {u}
    /\ jn' = [jn EXCEPT ![j] = [IdleJoin EXCEPT !.pc = "burn", !.user = u]]
    /\ joinLog' = [joinLog EXCEPT !.joins = @ + 1]
    /\ UNCHANGED <<JoinRest, whitelist, approved>>

(* A burn that reports an entry without revoking it. *)
burn_whitelist_keep(wl, u) == [wl |-> wl, result |-> u \in wl]

(* db.burn_whitelist: one UPDATE ... WHERE telegram_id = u AND revoked_at IS
   NULL; the result is the command tag, "UPDATE 0" when no row matched *)
burn_whitelist(wl, u) == [wl |-> wl \ {u}, result |-> u \in wl]

JBurn(j) ==
    LET b == burn_whitelist(whitelist, jn[j].user)
    IN  /\ jn[j].pc = "burn"
        /\ whitelist' = b.wl
        /\ jn' = [jn EXCEPT ![j].pc = "access", ![j].was = b.result]
        /\ joinLog' = [joinLog EXCEPT
                          !.burned = IF b.result THEN @ + 1 ELSE @]
        /\ UNCHANGED <<JoinRest, users, approved>>

(* A check that looks for a row and not at its deadlines. *)
has_active_row(s, u, t) ==
    \E i \in 1..Len(s) :
        s[i].user_id = u /\ s[i].status \in {"active", "grace"}

(* db.has_active_access *)
has_active_access(s, u, t) ==
    \E i \in 1..Len(s) :
        /\ s[i].user_id = u
        /\ s[i].status \in {"active", "grace"}
        /\ (s[i].expires_at > t
            \/ (s[i].grace_until # NULL /\ s[i].grace_until > t))

JHasAccess(j) ==
    /\ jn[j].pc = "access"
    /\ jn' = [jn EXCEPT ![j].pc = "decide",
                        ![j].has = has_active_access(subs, jn[j].user, now)]
    /\ UNCHANGED <<JoinRest, users, whitelist, approved, joinLog>>

(* if has_access or was_whitelisted: request.approve() *)
JApprove(j) ==
    /\ jn[j].pc = "decide"
    /\ jn[j].has \/ jn[j].was
    /\ approved' = approved \cup {jn[j].user}
    /\ joinLog' = [joinLog EXCEPT !.approvals = @ + 1]
    /\ jn' = [jn EXCEPT ![j] = IdleJoin]
    /\ UNCHANGED <<JoinRest, users, whitelist>>

(* request.approve() raises: logged by the inner except, the handler
   returns *)
JApproveFailed(j) ==
    /\ jn[j].pc = "decide"
    /\ jn[j].has \/ jn[j].was
    /\ jn' = [jn EXCEPT ![j] = IdleJoin]
    /\ UNCHANGED <<JoinRest, users, whitelist, approved, joinLog>>

(* otherwise: send_payment_offer *)
JOffer(j) ==
    /\ jn[j].pc = "decide"
    /\ ~(jn[j].has \/ jn[j].was)
    /\ jn' = [jn EXCEPT ![j] = IdleJoin]
    /\ joinLog' = [joinLog EXCEPT !.offers = @ + 1]
    /\ UNCHANGED <<JoinRest, users, whitelist, approved>>

(* a store call raises: logged by the handler's except, the handler returns *)
JStoreError(j) ==
    /\ jn[j].pc \in {"burn", "access"}
    /\ jn' = [jn EXCEPT ![j] = IdleJoin]
    /\ UNCHANGED <<JoinRest, users, whitelist, approved, joinLog>>

JoinNext ==
    \/ \E j \in JoinTasks, u \in Users : JUpsertUser(j, u)
    \/ \E j \in JoinTasks : JBurn(j)
    \/ \E j \in JoinTasks : JHasAccess(j)
    \/ \E j \in JoinTasks : JApprove(j)
    \/ \E j \in JoinTasks : JApproveFailed(j)
    \/ \E j \in JoinTasks : JOffer(j)
    \/ \E j \in JoinTasks : JStoreError(j)

(* Join requests, the owners' /wl_add and the revocation on leaving, with
   payments so that a user may also hold a subscription. *)
NextJoin ==
    \/ \E u \in Users : cmd_wl_add(u)
    \/ \E u \in Users : revoke_whitelist(u)
    \/ \E u \in Users, rec \in BOOLEAN :
          Len(ledger) < MaxRecTx /\ Pay(u, rec, NULL)
    \/ HandlerNext
    \/ JoinNext

SpecJoin == Init /\ [][NextJoin]_vars

(* the same with the clock moving, so that subscriptions run out *)
NextJoinTimed ==
    \/ Tick
    \/ NextJoin

SpecJoinTimed == Init /\ [][NextJoinTimed]_vars

(* More than one page: one member, known to the store since the join request,
   whose transactions fill the first page of the provider's listing and
   start a second before a run starts. *)
PagingUser == 1

NextPaging ==
    \/ /\ Len(ledger) <= PAGE_LIMIT
       /\ rc.pc = "idle"
       /\ Pay(PagingUser, TRUE, NULL)
    \/ JUpsertUser(1, PagingUser)
    \/ JBurn(1)
    \/ JHasAccess(1)
    \/ JApprove(1)
    \/ JOffer(1)
    \/ Len(ledger) > PAGE_LIMIT /\ RecStart
    \/ RecFetchPage
    \/ RecFetchError
    \/ RecTx
    \/ RecGetSub
    \/ RecApply
    \/ RecUpdateCursor

SpecPaging == Init /\ [][NextPaging]_vars

(* Reconciliation runs over the transactions of members and of a payer the
   store has no user row for (Stranger: the webhook never ran for them and
   they sent no join request): payments and join requests arrive between
   runs, a run takes seconds, and no call of a run fails except the insert
   that violates the foreign key. *)
Stranger == NumUsers + 1

NextBlocked ==
    \/ RecTick
    \/ \E u \in Users \cup {Stranger} :
          /\ Len(ledger) < MaxBlockedTx
          /\ rc.pc = "idle"
          /\ Pay(u, TRUE, NULL)
    \/ \E u \in Users : rc.pc = "idle" /\ JUpsertUser(1, u)
    \/ JBurn(1)
    \/ JHasAccess(1)
    \/ JApprove(1)
    \/ JOffer(1)
    \/ RecStart
    \/ RecFetchPage
    \/ RecTx
    \/ RecGetSub
    \/ RecApply
    \/ RecUpdateCursor

SpecBlocked == Init /\ [][NextBlocked]_vars

(* ---- ResilientTelegramBot.send_message ---- *)
RsRest == <<cbNow, cbHist, fa, api, approved, now, ticks, ledger, users,
            payments, subs, whitelist, cursor, hs, sw, rc, banCalls, obs,
            ReminderVars, SecondSweep, FlagVars, JoinVars, LimiterVars,
            TaskVars, SecondReconcile>>

(* How an attempt of the wrapped call ends: the API call returns; it raises
   TelegramBadRequest, TelegramRetryAfter, TelegramNetworkError or another
   TelegramAPIError (TelegramForbiddenError); or with_timeout gives up on
   it. *)
Outcomes == {"ok", "bad_request", "retry_after", "network", "forbidden",
             "timeout"}

(* the durations (seconds) a TelegramRetryAfter may carry; other outcomes
   carry none *)
RetryAfterSeconds == {1, 7}
SignalsOf(out) == IF out = "retry_after" THEN RetryAfterSeconds ELSE {0}

(* 0.5 + random.random(), in tenths *)
JitterTenths == {5, 10, 14}

Min(a, b) == IF a <= b THEN a ELSE b

(* exponential_backoff_with_jitter, in tenths of a second; d is the
   retry_after of the exception, which the function does not look at *)
exponential_backoff_with_jitter(attempt, f, d) ==
    Min(initial_delay * exponential_base ^ attempt, max_delay) * f

(* the body's handlers: except TelegramBadRequest returns None, except
   TelegramRetryAfter re-raises, except Exception queues the operation and
   re-raises; a cancellation by wait_for is no Exception *)
BodyReturns(out) == out \in {"ok", "bad_request"}
BodyQueues(out) == out \in {"network", "forbidden"}

(* with_retry(exceptions=(TelegramNetworkError, TelegramRetryAfter)) *)
RetryCatches(out) == out \in {"network", "retry_after"}

(* expected_exception=(TelegramAPIError, TelegramNetworkError) *)
BreakerCounts(out) == out \in {"retry_after", "network", "forbidden"}

(* queue_critical_operation: operation_queue.add *)
Queued(q, n) == [q EXCEPT !.queue = DequeAppend(@, [id |-> n, attempts |-> 0])]

(* breaker.call up to the wrapped function: an open breaker raises, otherwise
   the retry loop starts *)
RsGate ==
    /\ cb.pc = "idle"
    /\ cb.total_calls < MaxCalls
    /\ LET b == OnEnter(cb, cbNow)
       IN  IF b.state = "open"
           THEN /\ cb' = b
                /\ rs' = [IdleCall EXCEPT !.result = "rejected"]
           ELSE /\ cb' = [b EXCEPT !.pc = "func"]
                /\ rs' = [IdleCall EXCEPT !.pc = "attempt"]

(* a call of send_message from a handler of the application *)
RsEnter ==
    /\ RsGate
    /\ UNCHANGED <<opq, opLog, RsRest>>

(* One pass of the retry loop: the body under with_timeout ends with out (a
   retry-after of d seconds, a jitter factor of f tenths); the loop sleeps
   and goes round, or the call ends and the breaker does its accounting. *)
RsAttempt(out, d, f) ==
    LET exhausted == rs.attempt >= retry_max_attempts - 1
        n == IF BodyQueues(out) THEN 1 ELSE 0
        r1 == [rs EXCEPT !.queued = @ + n,
                         !.last = [out |-> out,
                                   signal |-> IF out = "retry_after"
                                              THEN d * 10 ELSE 0,
                                   slept |-> 0]]
    IN  /\ rs.pc = "attempt"
        /\ IF BodyQueues(out)
           THEN /\ opq' = Queued(opq, Len(opLog) + 1)
                /\ opLog' = Append(opLog, [tries |-> 0, fate |-> "queued"])
           ELSE UNCHANGED <<opq, opLog>>
        /\ IF BodyReturns(out)
           THEN /\ cb' = [OnSuccess(cb, cbNow) EXCEPT !.pc = "idle"]
                /\ rs' = [r1 EXCEPT !.pc = "idle", !.result = "success"]
           ELSE IF RetryCatches(out) /\ ~exhausted
           THEN /\ cb' = cb
                /\ rs' = [r1 EXCEPT
                             !.attempt = @ + 1,
                             !.last.slept =
                                exponential_backoff_with_jitter(rs.attempt,
                                                                f, d)]
           ELSE IF BreakerCounts(out)
           THEN /\ cb' = [OnFailure(cb, cbNow) EXCEPT !.pc = "idle"]
                /\ rs' = [r1 EXCEPT !.pc = "idle", !.result = "failure"]
           ELSE /\ cb' = [cb EXCEPT !.pc = "idle"]
                /\ rs' = [r1 EXCEPT !.pc = "idle", !.result = "uncounted"]
        /\ UNCHANGED RsRest

(* Calls of the wrapper, one at a time (the breaker's lock), with the clock
   moving; nothing drains the queue (the retry processor is not started). *)
NextResilient ==
    \/ CbTick
    \/ RsEnter
    \/ \E out \in Outcomes : \E d \in SignalsOf(out), f \in JitterTenths :
          RsAttempt(out, d, f)

SpecResilient == Init /\ [][NextResilient]_vars

(* ---- RetryProcessor: the drain with process_operation as its handler ---- *)

(* process_operation -> _retry_send_message: the popped operation is
   re-attempted through resilient_bot.send_message *)
PoCall ==
    /\ opq.pc = "handler"
    /\ cb.total_calls < MaxDrainCalls
    /\ RsGate
    /\ opq' = [opq EXCEPT !.pc = "calling"]
    /\ UNCHANGED <<opLog, RsRest>>

(* what _retry_send_message returns, process_operation passing it on: True
   when send_message returned, False when it raised (except Exception) *)
HandlerResult(r) == r = "success"

(* The re-attempt is over and process_operation returns; it raises nothing,
   so OperationQueue.process takes its try branch, processed += 1, and goes
   round its loop with the operation dropped.  done records whether the
   operation's effect happened. *)
PoReturn ==
    /\ opq.pc = "calling"
    /\ rs.pc = "idle"
    /\ opq' = [opq EXCEPT !.pc = "loop", !.op = NoOp]
    /\ opLog' = [opLog EXCEPT ![opq.op.id].fate =
                     IF HandlerResult(rs.result) THEN "processed"
                                                 ELSE "not_done"]
    /\ UNCHANGED <<cb, rs, RsRest>>

(* an application call of send_message, made while the drain is not inside
   its own call *)
AppCall ==
    /\ opq.pc \notin {"handler", "calling"}
    /\ cb.total_calls < MaxDrainCalls
    /\ RsEnter

(* The retry processor's loop calls operation_queue.process; the drain's
   steps interleave with the application's calls of send_message, whose
   failures put operations on the queue. *)
NextDrain ==
    \/ AppCall
    \/ \E out \in Outcomes : \E d \in SignalsOf(out), f \in JitterTenths :
          RsAttempt(out, d, f)
    \/ QStart
    \/ QPop
    \/ PoCall
    \/ PoReturn
    \/ QFinish

SpecDrain == Init /\ [][NextDrain]_vars

(* ---- RateLimiter ---- *)
OutsideLimiter == <<now, ticks, ledger, users, payments, subs, whitelist,
                    cursor, hs, sw, rc, banCalls, obs, ResilienceVars,
                    ReminderVars, SecondSweep, FlagVars, JoinVars,
                    CallVars, TaskVars, SecondReconcile>>

(* time.time() moves on, also while requests are in the middleware *)
RlTick ==
    /\ rlNow < MaxRlTicks
    /\ rlNow' = rlNow + 1
    /\ UNCHANGED <<rl, rlTasks, rlLog, OutsideLimiter>>

(* A pruning that forgets every request. *)
PruneAll(q, start) == <<>>

(* while request_times and request_times[0] < window_start: popleft() *)
RECURSIVE Prune(_, _)
Prune(q, start) ==
    IF q # <<>> /\ Head(q) < start THEN Prune(Tail(q), start) ELSE q

(* check_rate_limit, the body under the lock: the deque afterwards and the
   first component of the result *)
check_rate_limit(q, max_requests, window_seconds, t) ==
    LET request_times == Prune(q, t - window_seconds)
    IN  IF Len(request_times) >= max_requests
        THEN [requests |-> request_times, allowed |-> FALSE]
        ELSE [requests |-> Append(request_times, t), allowed |-> TRUE]

(* dispatch, up to the call of check_rate_limit: the key is chosen *)
RlArrive(c, k) ==
    /\ rlTasks[c].pc = "idle"
    /\ Len(rlLog) + Cardinality({d \in Callers : rlTasks[d].pc = "check"})
          < MaxRlCalls
    /\ rlTasks' = [rlTasks EXCEPT ![c] = [IdleCaller EXCEPT !.pc = "check",
                                                             !.key = k]]
    /\ UNCHANGED <<rl, rlNow, rlLog, OutsideLimiter>>

(* The lock is taken and the body runs; it has no suspension point, so no
   other task runs in between. *)
RlCheck(c) ==
    LET k == rlTasks[c].key
        r == check_rate_limit(rl[k], MaxRequests, WindowSeconds, rlNow)
    IN  /\ rlTasks[c].pc = "check"
        /\ rl' = [rl EXCEPT ![k] = r.requests]
        /\ rlTasks' = [rlTasks EXCEPT ![c].pc = "respond",
                                      ![c].allowed = r.allowed]
        /\ rlLog' = Append(rlLog, [key |-> k, at |-> rlNow,
                                   allowed |-> r.allowed])
        /\ UNCHANGED <<rlNow, OutsideLimiter>>

(* if not allowed: the 429 response; otherwise call_next and its response *)
RlRespond(c) ==
    /\ rlTasks[c].pc = "respond"
    /\ rlTasks' = [rlTasks EXCEPT ![c] = IdleCaller]
    /\ UNCHANGED <<rl, rlNow, rlLog, OutsideLimiter>>

NextLimiter ==
    \/ RlTick
    \/ \E c \in Callers, k \in Keys : RlArrive(c, k)
    \/ \E c \in Callers : RlCheck(c)
    \/ \E c \in Callers : RlRespond(c)

SpecLimiter == Init /\ [][NextLimiter]_vars

(* ---- properties: idempotent ingestion ---- *)

(* the notification e names a payment the table already holds: its charge id,
   or its provider id as external transaction id *)
Seen(ps, e) ==
    \E i \in 1..Len(ps) :
        \/ ps[i].charge_id = e.id
        \/ e.provider # NULL /\ ps[i].star_tx_id = e.provider

(* C1: when the handler's insert_payment_idempotent is called for a
   notification whose charge id or external transaction id is already in
   table payments, the call returns None: no payment row is added, the
   handler returns at once and changes no subscription row. *)
DuplicateIsNoOp ==
    [][\A h \in Handlers :
          /\ (/\ hs[h].pc = "insert"
              /\ hs'[h].pc # "insert"
              /\ Seen(payments, ledger[hs[h].ev]))
             => /\ payments' = payments
                /\ subs' = subs
                /\ hs'[h].pc \in {"duplicate", "idle"}
          /\ (hs[h].pc = "duplicate" /\ hs'[h] # hs[h])
             => /\ hs'[h].pc = "idle"
                /\ payments' = payments
                /\ subs' = subs]_vars

(* a second notification of the one recorded payment has got the duplicate
   outcome *)
DuplicateAnswered ==
    /\ Len(payments) = 1
    /\ \E h \in Handlers :
          hs[h].pc = "duplicate" /\ Seen(payments, ledger[hs[h].ev])

(* C2: in every reachable state each user has at most one subscription row
   whose status is active or grace. *)
AtMostOneCurrentRow ==
    \A u \in Users : Cardinality(ActiveSubIds(subs, u)) <= 1

(* row i is the only subscription row of its user *)
OnlyRow(s, i) == \A j \in 1..Len(s) : s[j].user_id = s[i].user_id => j = i

(* C3: when process_subscription_payment ends for a new payment of a user
   whose subscription row is in status grace or expired, that same row is
   active afterwards with grace_until and grace_started_at cleared, wherever
   a sweep stands. *)
PaymentReactivatesRow ==
    [][\A h \in Handlers : \A i \in SubIds :
          (/\ hs[h].pc = "commit"
           /\ hs'[h].pc = "idle"
           /\ subs[i].user_id = ledger[hs[h].ev].user
           /\ subs[i].status \in {"grace", "expired"}
           /\ OnlyRow(subs, i))
          => /\ subs'[i].status = "active"
             /\ subs'[i].grace_until = NULL
             /\ subs'[i].grace_started_at = NULL]_vars

(* user u has a recorded payment linked to a row that is active and not yet
   past its expiry *)
PaidAndActive(u) ==
    \E i \in SubIds :
        /\ subs[i].user_id = u
        /\ subs[i].status = "active"
        /\ subs[i].expires_at > now
        /\ \E p \in PayIds : payments[p].subscription_id = i

(* C4: under every interleaving of the sweep with payment ingestion, no ban
   call is issued for a user whose payment is recorded and whose
   subscription is active at the moment of the call. *)
NoBanOfPaidUser ==
    [][\A u \in Users :
          banCalls'[u] > banCalls[u] => ~PaidAndActive(u)]_vars

(* C5: the payment insert and the subscription change of an ingestion are one
   atomic unit: no state that another task can observe holds a payment row
   whose subscription create/extend has not been applied. *)
PaymentNeverWithoutSubscription ==
    \A p \in PayIds :
        payments[p].charge_id # NULL => payments[p].subscription_id # NULL

(* C6: an ingestion whose store call failed is not left partially applied:
   when the handler ends after having inserted its payment row, the
   subscription change of that payment has been applied too (the handler
   ends normally in every case: there is no outcome in which the failure is
   handed to its caller). *)
IngestionNeverPartial ==
    [][\A h \in Handlers :
          (hs[h].pc # "idle" /\ hs'[h].pc = "idle" /\ hs[h].pay # 0)
          => payments'[hs[h].pay].subscription_id # NULL]_vars

(* ---- properties: the sweep ---- *)

(* C7: a run of check_subscriptions that starts after another run at the same
   clock value, with no write of a payment or subscription by another task
   in between, changes no subscription row and issues no ban call. *)
SecondSweepChangesNothing ==
    [][(obs.runs = 2 /\ obs'.runs = 2)
          => subs' = subs /\ banCalls' = banCalls]_vars

(* the second of two runs has ended, at a clock value at which the first one
   moved a row to grace *)
SecondSweepDone ==
    /\ obs.runs = 2
    /\ sw.pc = "idle"
    /\ \E i \in SubIds : subs[i].grace_started_at = now

(* C8: in the grace -> expired step of a sweep every grace row of the user
   becomes expired; the ban call for that user follows if and only if
   is_whitelisted finds no active entry when the sweep looks it up, and no
   ban call is issued anywhere else. *)
BanIffNotWhitelisted ==
    [][/\ (sw.pc = "expire" /\ sw'.pc = "whitelist")
           => \A i \in SubIds :
                 (subs[i].user_id = sw'.user /\ subs[i].status = "grace")
                 => subs'[i].status = "expired"
       /\ (sw.pc = "whitelist" /\ sw'.pc # "whitelist")
           => /\ (sw'.pc = "ban") <=> (sw.user \notin whitelist)
              /\ sw'.pc \in {"ban", "expire"}
       /\ (sw.pc = "ban" /\ sw'.pc # "ban")
           => banCalls'[sw.user] = banCalls[sw.user] + 1
       /\ \A u \in Users :
             banCalls'[u] # banCalls[u] => sw.pc = "ban" /\ sw.user = u]_vars

(* a sweep has moved the row of a whitelisted user to expired and gone on
   without a ban call *)
ExpiredWithoutBan ==
    /\ sw.pc = "expire"
    /\ sw.moved
    /\ sw.wl
    /\ subs[sw.cur].status = "expired"
    /\ banCalls[sw.user] = 0

(* ---- properties: the end-to-end trace ---- *)

(* one one-time payment, recorded once, and the one subscription row it made *)
OnePayment ==
    /\ Len(ledger) = 1
    /\ ~ledger[1].recurring
    /\ Len(payments) = 1
    /\ Len(subs) = 1

(* a sweep run has ended at the present clock value *)
SweepRan == obs.runs >= 1 /\ sw.pc = "idle"

(* C9 as stated: one one-time payment at t0 gives expires_at = t0 + 30 days;
   the sweep at t0 + 30 days + 1 hour gives status grace with grace_until =
   t0 + 30 days + 1 hour + 48 hours. *)
E2EGraceCountedFromSweep ==
    OnePayment =>
        LET t0 == payments[1].created_at
        IN  /\ subs[1].expires_at = t0 + Days(30)
            /\ (now = t0 + Days(30) + Hours(1) /\ SweepRan)
                => /\ subs[1].status = "grace"
                   /\ subs[1].grace_until = t0 + Days(30) + Hours(1) + Hours(48)

(* C9, with the grace deadline the sweep stores: one one-time payment at t0
   gives expires_at = t0 + 30 days; the sweep at t0 + 30 days + 1 hour gives
   status grace with grace_until = t0 + 30 days + 48 hours; the sweep at
   grace_until + 1 minute, the user holding no whitelist entry, gives status
   expired and exactly one ban call. *)
E2ETrace ==
    OnePayment =>
        LET t0 == payments[1].created_at
        IN  /\ subs[1].expires_at = t0 + Days(30)
            /\ now <= t0 + Days(30) => subs[1].status = "active"
            /\ (now = t0 + Days(30) + Hours(1) /\ SweepRan)
                => /\ subs[1].status = "grace"
                   /\ subs[1].grace_started_at = now
                   /\ subs[1].grace_until = t0 + Days(30) + Hours(48)
                   /\ banCalls[subs[1].user_id] = 0
            /\ (now = t0 + Days(30) + Hours(48) + 1 /\ SweepRan)
                => /\ subs[1].status = "expired"
                   /\ banCalls[subs[1].user_id] = 1

(* the whole trace has run: grace began at the sweep one hour after the
   expiry, and the sweep one minute after the deadline has expired the row
   and banned the user *)
E2ETraceDone ==
    /\ OnePayment
    /\ SweepRan
    /\ now = payments[1].created_at + Days(30) + Hours(48) + 1
    /\ subs[1].grace_started_at = payments[1].created_at + Days(30) + Hours(1)
    /\ subs[1].status = "expired"
    /\ banCalls[subs[1].user_id] = 1

(* ---- properties: reconciliation ---- *)

(* every transaction of the provider inside the window of the current run
   was in table payments, as external transaction id, when the run began *)
WindowFullyKnown ==
    \A k \in 1..Len(ledger) :
        (ledger[k].date >= rc.from /\ ledger[k].date <= rc.to)
        => ledger[k].id \in obs.recStars

(* C10: a reconciliation run over a window whose every transaction is already
   in table payments inserts no payment row, changes no subscription row and
   leaves the cursor equal to or later than the value it read. *)
KnownWindowIsNoOp ==
    [][(rc.pc = "cursor" /\ rc'.pc = "idle" /\ WindowFullyKnown)
          => /\ obs.recWrites = 0
             /\ payments' = payments
             /\ subs' = subs
             /\ cursor' >= obs.recCursor]_vars

(* a run has gone through a page holding a known transaction of its window *)
KnownWindowScanned ==
    /\ rc.pc = "cursor"
    /\ rc.offset > 0
    /\ WindowFullyKnown
    /\ \E k \in 1..Len(ledger) :
          ledger[k].date >= rc.from /\ ledger[k].date <= rc.to

(* transaction e lies inside the window of the current run *)
InWindow(e) == e.date >= rc.from /\ e.date <= rc.to

(* the current run has gone through the whole list without an error, has
   inserted one payment, and k is the only transaction of its window *)
OneApplied(k) ==
    /\ rc.pc = "cursor"
    /\ rc.offset = Len(ledger)
    /\ rc.new = 1
    /\ InWindow(ledger[k])
    /\ \A j \in 1..Len(ledger) : InWindow(ledger[j]) => j = k

(* the steps of a run on an in-window transaction whose id no payment row
   carries and whose user exists: the insert adds one row (recurring_renewal,
   recurring, external id = transaction id), and the subscription step that
   follows leaves the user with an active row reaching 30 days past the
   transaction *)
OneUnknownIngested ==
    /\ (/\ rc.pc = "tx"
        /\ rc' # rc
        /\ InWindow(rc.page[rc.i])
        /\ rc.page[rc.i].id \notin ExistingStarTxIds(payments, 0)
        /\ rc.page[rc.i].user \in users)
       => /\ payments' = Append(payments,
                 NewPayment(rc.page[rc.i].user, NULL, rc.page[rc.i].id,
                            "recurring_renewal", TRUE, now))
          /\ rc'.pc = "getsub"
          /\ rc'.new = rc.new + 1
    /\ (rc.pc = "apply" /\ (rc'.i # rc.i \/ rc'.offset # rc.offset))
       => \E i \in 1..Len(subs') :
             /\ subs'[i].user_id = rc.page[rc.i].user
             /\ subs'[i].status = "active"
             /\ subs'[i].grace_until = NULL
             /\ subs'[i].expires_at >= rc.page[rc.i].date + Days(30)

(* C11 as stated: a run that enumerates exactly one in-window transaction
   whose id is not in table payments creates one payment row
   (recurring_renewal, recurring), extends or creates the user's
   subscription as active, and sets the cursor to the timestamp of that
   transaction. *)
ReconcileOneSetsCursorToTx ==
    [][/\ OneUnknownIngested
       /\ \A k \in 1..Len(ledger) :
             (OneApplied(k) /\ rc'.pc = "idle")
             => cursor' = ledger[k].date]_vars

(* C11, with the cursor the run stores: a run that enumerates exactly one
   in-window transaction whose id is not in table payments and whose user
   exists creates, when no store call fails, one payment row
   (recurring_renewal, recurring), extends or creates the user's
   subscription as active, and sets the cursor to the later of the value it
   read and the timestamp of that transaction. *)
ReconcileOneApplied ==
    [][/\ OneUnknownIngested
       /\ \A k \in 1..Len(ledger) :
             (OneApplied(k) /\ rc'.pc = "idle")
             => cursor' = Max(obs.recCursor, ledger[k].date)]_vars

(* a run has applied its one transaction, which is older than the cursor it
   read, and is about to store the cursor *)
OneOlderApplied ==
    \E k \in 1..Len(ledger) :
        /\ OneApplied(k)
        /\ ledger[k].date < obs.recCursor
        /\ \E p \in PayIds : payments[p].star_tx_id = ledger[k].id
        /\ \E i \in SubIds :
              subs[i].user_id = ledger[k].user /\ subs[i].status = "active"

(* a run is at transaction k, which lies in its window, which no payment row
   records (neither as charge id nor as external id), which no webhook task
   is handling, and whose user exists *)
MissedInWindow(k) ==
    /\ k <= Len(ledger)
    /\ \A h \in Handlers : hs[h].pc = "idle"
    /\ rc.pc = "tx"
    /\ rc.page[rc.i].id = k
    /\ InWindow(ledger[k])
    /\ ledger[k].user \in users
    /\ \A p \in PayIds :
          payments[p].charge_id # k /\ payments[p].star_tx_id # k

(* transaction k is applied: its payment row is present and the user's
   subscription is active and reaches 30 days past the transaction *)
AppliedTx(k) ==
    /\ k <= Len(ledger)
    /\ \E p \in PayIds : payments[p].star_tx_id = k
    /\ \E i \in SubIds :
          /\ subs[i].user_id = ledger[k].user
          /\ subs[i].status = "active"
          /\ subs[i].expires_at >= ledger[k].date + Days(30)

(* the webhook has recorded transaction k after all *)
WebhookRecorded(k) == \E p \in PayIds : payments[p].charge_id = k

(* C12: with reconciliation runs scheduled fairly and only transient
   failures, every transaction that the webhook missed and that a run meets
   in its window is eventually applied (payment row present, subscription
   extended), and no transaction is recorded more than once by the runs. *)
MissedEventuallyApplied ==
    /\ \A k \in 1..MaxRecTx :
          MissedInWindow(k) ~> (AppliedTx(k) \/ WebhookRecorded(k))
    /\ [](\A p, q \in PayIds :
            (payments[p].star_tx_id # NULL
             /\ payments[p].star_tx_id = payments[q].star_tx_id) => p = q)

(* ---- properties: circuit breaker ---- *)

(* the outcomes the breaker counts: successes and expected failures *)
CountedOf(h) == SelectSeq(h, LAMBDA e : e.out \in {"success", "failure"})

(* the last n counted outcomes of history h are all out, in state st *)
LastCountedOf(h, n, out, st) ==
    LET c == CountedOf(h)
    IN  /\ Len(c) >= n
        /\ \A i \in (Len(c) - n + 1)..Len(c) :
              c[i].out = out /\ c[i].state = st

LastCounted(n, out, st) == LastCountedOf(cbHist, n, out, st)

(* a call enters now and finds the breaker open with the timeout running *)
EntersWhileOpen ==
    /\ cb.pc = "idle"
    /\ cb'.total_calls = cb.total_calls + 1
    /\ cb.state = "open"
    /\ cbNow - cb.state_changed_at < recovery_timeout

(* C13: once failure_threshold calls in a row through a closed breaker have
   failed (raised an expected exception), the breaker is open; and every call
   made while it is open and before recovery_timeout has elapsed raises at
   once: the wrapped operation is not invoked and the breaker stays open. *)
OpensAndFailsFast ==
    /\ []((cb.pc = "idle" /\ LastCounted(failure_threshold, "failure", "closed")
           /\ cbHist[Len(cbHist)].out = "failure")
          => cb.state = "open")
    /\ [][EntersWhileOpen
          => /\ cb'.pc = "idle"
             /\ cb'.state = "open"
             /\ cbHist' = Append(cbHist, Outcome("rejected", "open"))]_vars

(* failure_threshold failures through the closed breaker, then a call that
   was rejected before the timeout elapsed *)
RejectedAfterThreshold ==
    /\ LastCounted(failure_threshold, "failure", "closed")
    /\ cbHist[Len(cbHist)].out = "rejected"
    /\ cb.state = "open"
    /\ cb.pc = "idle"
    /\ cbNow - cb.state_changed_at < recovery_timeout

(* a call enters now and finds the breaker open with the timeout elapsed *)
EntersAfterTimeout ==
    /\ cb.pc = "idle"
    /\ cb'.total_calls = cb.total_calls + 1
    /\ cb.state = "open"
    /\ cbNow - cb.state_changed_at >= recovery_timeout

(* the wrapped operation of a call through the half-open breaker ends now,
   in a way the breaker counts *)
EndsHalfOpen(out) ==
    /\ cb.pc = "func"
    /\ cb.state = "half_open"
    /\ cbHist' = Append(cbHist, Outcome(out, "half_open"))

(* C14: a call that finds the breaker open with recovery_timeout elapsed
   makes it half-open and invokes the wrapped operation; a successful call
   through the half-open breaker closes it exactly when it is the
   success_threshold-th success in a row there; a failed call through the
   half-open breaker opens it again; and no step takes the breaker from open
   to closed or from closed to half-open. *)
HalfOpenProtocol ==
    [][/\ EntersAfterTimeout
          => (cb'.state = "half_open" /\ cb'.pc = "func")
       /\ EndsHalfOpen("success")
          => (cb'.state = "closed"
              <=> LastCountedOf(cbHist', success_threshold, "success",
                                "half_open"))
       /\ EndsHalfOpen("failure") => cb'.state = "open"
       /\ ~(cb.state = "open" /\ cb'.state = "closed")
       /\ ~(cb.state = "closed" /\ cb'.state = "half_open")
       /\ (cb.state = "half_open" /\ cb'.state = "closed")
          => EndsHalfOpen("success")]_vars

(* the breaker opened, a call was rejected, then the breaker went half-open
   and has just closed on its success_threshold-th success *)
ClosedAfterRecovery ==
    /\ cb.state = "closed"
    /\ cb.pc = "idle"
    /\ \E i \in 1..Len(cbHist) : cbHist[i].out = "rejected"
    /\ LastCounted(success_threshold, "success", "half_open")
    /\ cbHist[Len(cbHist)].out = "success"

(* ---- properties: operation queue ---- *)

QueuedIds == {opq.queue[i].id : i \in 1..Len(opq.queue)}

(* C15: every operation added to the queue is attempted at most 3 times in
   all; the operation whose third attempt fails is abandoned, and an
   abandoned operation is never in the queue again; and a drain, once no more
   operations are added, ends with the queue empty. *)
AttemptsBoundedAndDrainEnds ==
    /\ [](\A id \in 1..Len(opLog) :
            /\ opLog[id].tries <= 3
            /\ opLog[id].fate = "abandoned"
               => (id \notin QueuedIds /\ opq.op.id # id))
    /\ [][\A id \in 1..Len(opLog) :
            (opLog[id].tries = 3 /\ opLog[id].fate = "attempt"
             /\ opLog'[id].fate # "attempt")
            => (opLog'[id].fate \in {"processed", "abandoned"}
                /\ id \notin {opq'.queue[i].id : i \in 1..Len(opq'.queue)})]_vars
    /\ (opq.processing ~> (~opq.processing /\ opq.queue = <<>>))

(* an operation was abandoned after three failed attempts and the drain has
   ended with the queue empty *)
AbandonedAfterThree ==
    /\ \E id \in 1..Len(opLog) :
          opLog[id].tries = 3 /\ opLog[id].fate = "abandoned"
    /\ ~opq.processing
    /\ opq.queue = <<>>

(* ---- properties: access grant ---- *)

(* C16: a grant whose immediate attempts have all failed for a transient
   reason is on the operation queue from then on until it is re-attempted,
   and the user's join request is approved in the end, once the API is back. *)
FailedGrantEventuallyGranted ==
    \A t \in GrantTasks :
        (fa[t].pc = "gave_up")
        ~> (fa[t].user \in approved \/ opq.queue # <<>>)

(* ---- properties: validation ---- *)

(* a notification whose amount is not a positive number of stars *)
Malformed(e) == e.amount <= 0

(* C17: a notification with a malformed amount leaves no row behind: no
   payment row carries its charge id, and a user whose notifications are all
   malformed has no user row, no payment row and no subscription row. *)
MalformedNeverWritten ==
    /\ \A k \in 1..Len(ledger) :
          Malformed(ledger[k])
          => \A p \in PayIds : payments[p].charge_id # k
    /\ \A u \in Users :
          (\A k \in 1..Len(ledger) :
              ledger[k].user = u => Malformed(ledger[k]))
          => /\ u \notin users
             /\ \A p \in PayIds : payments[p].user_id # u
             /\ \A i \in SubIds : subs[i].user_id # u

(* ---- properties: reminders ---- *)

(* C18: for a non-recurring subscription at most one expiry reminder is sent
   per period (per expiry date of the row), and once a run has completed
   while the row is active within the lead time, one has been sent. *)
OneReminderPerPeriod ==
    /\ \A a, b \in 1..Len(reminders) :
          (reminders[a].sub = reminders[b].sub
           /\ reminders[a].expires = reminders[b].expires) => a = b
    /\ \A i \in SubIds :
          (/\ rem.pc = "idle"
           /\ rem.last = now
           /\ subs[i].status = "active"
           /\ ~subs[i].is_recurring
           /\ subs[i].expires_at >= now
           /\ subs[i].expires_at <= now + Days(days_before_expire))
          => \E a \in 1..Len(reminders) :
                 /\ reminders[a].sub = i
                 /\ reminders[a].expires = subs[i].expires_at

(* ---- properties: overlapping sweeps ---- *)

(* C19: also when two runs of the sweep overlap, the ban call that goes with
   the grace -> expired transition is issued at most once per subscription
   row (a row makes that transition at most once). *)
BanAtMostOncePerRow ==
    \A u \in Users :
        banCalls[u] <= Cardinality({i \in SubIds : subs[i].user_id = u})

(* ---- properties: kick flag ---- *)

(* C20: while the flag kick_enabled is off (after /kicks_off), no step
   issues a ban call, for any user. *)
NoBanWhileKicksOff ==
    [][kick_enabled = "off" => banCalls' = banCalls]_vars

(* ---- properties: whitelist burn ---- *)

(* C21: burn_whitelist returns True exactly when the user held an active
   whitelist entry, and is_whitelisted is False for that user once it has
   returned; and the join requests that burned an entry never outnumber the
   grants made, however the join requests interleave. *)
BurnConsumesGrantOnce ==
    /\ [][\A j \in JoinTasks :
            (jn[j].pc = "burn" /\ jn'[j].pc = "access")
            => /\ jn'[j].was = is_whitelisted(whitelist, jn[j].user)
               /\ ~is_whitelisted(whitelist', jn[j].user)]_vars
    /\ [](joinLog.burned <= joinLog.grants)

(* two join requests of one user are in flight after the one grant made: one
   has burned the entry, the other has found none *)
TwoJoinsOneBurn ==
    /\ joinLog.grants = 1
    /\ \E j, k \in JoinTasks :
          /\ jn[j].pc = "access" /\ jn[k].pc = "access"
          /\ jn[j].user = jn[k].user
          /\ jn[j].was /\ ~jn[k].was

(* ---- properties: rate limiter ---- *)

(* the requests of key k that were allowed at a time in a..b *)
AllowedIn(k, a, b) ==
    {i \in 1..Len(rlLog) :
        /\ rlLog[i].key = k
        /\ rlLog[i].allowed
        /\ rlLog[i].at >= a
        /\ rlLog[i].at <= b}

(* C22: for every key, every window of window_seconds holds at most
   max_requests allowed requests, whatever the order in which concurrent
   requests reach the limiter; a request checked when the window that ends
   with it already holds max_requests allowed requests is refused (status
   429), and a refused request adds no timestamp to the key's history. *)
WindowNeverExceeded ==
    /\ [](\A k \in Keys : \A a \in 0..rlNow :
            Cardinality(AllowedIn(k, a, a + WindowSeconds)) <= MaxRequests)
    /\ [][\A c \in Callers :
            (rlTasks[c].pc = "check" /\ rlTasks'[c].pc = "respond")
            => LET k == rlTasks[c].key
                   full == Cardinality(AllowedIn(k, rlNow - WindowSeconds,
                                                 rlNow)) >= MaxRequests
               IN  /\ rlTasks'[c].allowed = ~full
                   /\ rlLog'[Len(rlLog')].allowed = ~full
                   /\ full => Len(rl'[k]) <= Len(rl[k])]_vars

(* two requests of one key are in the middleware together, the second refused
   because the window was full; later, the window having moved on, a request
   of that key was allowed again *)
RefusedThenAllowedAgain ==
    \E i, j \in 1..Len(rlLog) :
        /\ i < j
        /\ rlLog[i].key = rlLog[j].key
        /\ ~rlLog[i].allowed
        /\ rlLog[j].allowed
        /\ Cardinality(AllowedIn(rlLog[i].key, 0, rlLog[i].at)) = MaxRequests
        /\ \A c \in Callers : rlTasks[c].pc = "respond"

(* ---- properties: reconciliation cursor ---- *)

(* C23: the stored reconciliation cursor never decreases, whatever the order
   in which the steps of the runs interleave (two runs that read the same
   cursor and finish in either order, runs that stop early on a paging
   failure). *)
CursorNeverDecreases ==
    [][cursor' >= cursor]_vars

(* ---- properties: order of the transitions ---- *)

(* C24: no step takes a subscription row from active to expired; the second
   query of a pass returns every row that is in grace with its deadline
   before the time of the pass, the rows this pass has just set to grace
   included; and the expiry step sets such a row to expired and is followed
   by the whitelist lookup. *)
GraceBeforeExpired ==
    [][/\ \A i \in SubIds :
             subs[i].status = "active" => subs'[i].status # "expired"
       /\ (sw.pc = "grace" /\ sw'.pc = "expire")
          => \A i \in SubIds :
                (subs[i].status = "grace" /\ subs[i].grace_until < sw.now)
                => [id |-> i, row |-> subs[i]] \in sw'.todo
       /\ (sw.pc = "expire" /\ sw' # sw /\ sw'.pc # "idle")
          => /\ sw'.pc = "whitelist"
             /\ subs[sw'.cur].status = "grace"
                => subs'[sw'.cur].status = "expired"]_vars

(* a pass that began after the grace deadline has set a row to grace and, in
   the same pass, to expired, and is at the whitelist lookup *)
GraceThenExpiredInOnePass ==
    /\ sw.pc = "whitelist"
    /\ sw.moved
    /\ subs[sw.cur].status = "expired"
    /\ subs[sw.cur].grace_started_at = sw.now
    /\ subs[sw.cur].grace_until < sw.now

(* ---- properties: the grace deadline ---- *)

(* C25: every step of the sweep that takes a row from active to grace stores
   as its grace deadline the row's stored expiry plus the grace duration. *)
GraceDeadlineFromExpiry ==
    [][\A i \in SubIds :
          (subs[i].status = "active" /\ subs'[i].status = "grace")
          => subs'[i].grace_until = subs'[i].expires_at + Hours(GRACE_HOURS)]_vars

(* ---- properties: failures of the sweep's side effects ---- *)

(* C26: a step of the sweep in which the grace notification fails still sets
   the user's active rows to grace and leaves the pass in its first loop with
   the other rows still to do; a step in which the ban call or the expiry
   notification fails changes no subscription row (the row stays expired) and
   leaves the pass in its second loop with the other rows still to do; and a
   pass ends only when its second list is exhausted. *)
SideEffectFailureIsContained ==
    [][/\ (sw.pc = "grace" /\ sw'.errors > sw.errors)
          => /\ sw'.pc = "grace"
             /\ \E r \in sw.todo :
                   /\ sw'.todo = sw.todo \ {r}
                   /\ \A i \in SubIds :
                         (subs[i].user_id = r.row.user_id
                          /\ subs[i].status = "active")
                         => subs'[i].status = "grace"
       /\ (sw.pc = "ban" /\ sw'.errors > sw.errors)
          => /\ subs' = subs
             /\ sw.moved => subs'[sw.cur].status = "expired"
             /\ sw'.pc = "expire"
             /\ sw'.todo = sw.todo
       /\ (sw.pc # "idle" /\ sw'.pc = "idle")
          => (sw.pc = "expire" /\ sw.todo = {})]_vars

(* one pass in which the grace notification, the ban call and the expiry
   notification all failed: the row went to grace and to expired all the
   same, and the pass has come to its end *)
AllSideEffectsFailed ==
    /\ sw.pc = "expire"
    /\ sw.todo = {}
    /\ sw.errors = 3
    /\ Len(subs) = 1
    /\ subs[1].status = "expired"
    /\ subs[1].grace_started_at = sw.now
    /\ banCalls[subs[1].user_id] = 1

(* ---- properties: the new expiry ---- *)

(* C27: when process_subscription_payment commits, the expiry of the row it
   wrote is, for a payment without provider-supplied expiry, the later of the
   row's previous expiry and now, plus the plan duration (now plus the plan
   duration for a new row); for a recurring charge it is the expiry the
   provider supplied. *)
ExpiryAddsFullPlan ==
    [][\A h \in Handlers :
          (hs[h].pc = "commit" /\ hs'[h].pc = "idle" /\ subs' # subs)
          => LET e == ledger[hs[h].ev]
                 id == hs[h].sub
                 row == IF id # 0 THEN id ELSE Len(subs')
             IN  subs'[row].expires_at =
                    IF e.recurring
                    THEN e.date + Days(SUBSCRIPTION_PERIOD_DAYS)
                    ELSE IF id # 0
                         THEN Max(subs[id].expires_at, now) + Days(PLAN_DAYS)
                         ELSE now + Days(PLAN_DAYS)]_vars

(* ---- properties: the resilient wrapper ---- *)

(* C28: an attempt that ends in a timeout is treated as one that ends in a
   network error: before the last attempt the retry loop goes round, and at
   the last attempt the call ends with the breaker counting a failure
   (consecutive_failures one higher, a half-open breaker open again). *)
TimeoutIsTransientFailure ==
    [][(rs.pc = "attempt" /\ rs'.last.out = "timeout" /\ rs' # rs)
          => IF rs.attempt < retry_max_attempts - 1
             THEN rs'.pc = "attempt" /\ rs'.attempt = rs.attempt + 1
             ELSE /\ rs'.pc = "idle"
                  /\ cb'.consecutive_failures = cb.consecutive_failures + 1
                  /\ cb.state = "half_open" => cb'.state = "open"]_vars

(* C29: the sleep that follows an attempt failed with a retry-after signal
   of duration d lasts exactly d. *)
RetryAfterHonoured ==
    [][(rs.pc = "attempt" /\ rs'.pc = "attempt" /\ rs'.attempt > rs.attempt
        /\ rs'.last.out = "retry_after")
          => rs'.last.slept = rs'.last.signal]_vars

(* C30: a call puts at most one operation on the queue, and only when its
   retry loop is exhausted: a call still in its retry loop, a rejected call
   and a call that succeeded have queued nothing. *)
QueuedOnlyOnExhaustion ==
    /\ rs.queued <= 1
    /\ rs.queued = 1
       => (/\ rs.pc = "idle"
           /\ rs.result = "failure"
           /\ rs.attempt = retry_max_attempts - 1)
    /\ Len(opLog) <= cb.total_calls

(* C31: when the drain's re-attempt of a popped operation fails and the
   operation's attempt counter is below the ceiling, the same operation, with
   its counter, is on the queue again when the drain goes on. *)
FailedReattemptRequeued ==
    [][(/\ opq.pc = "calling"
        /\ opq'.pc = "loop"
        /\ ~HandlerResult(rs.result)
        /\ opq.op.attempts < QUEUE_ATTEMPTS)
          => \E i \in 1..Len(opq'.queue) : opq'.queue[i] = opq.op]_vars

(* C36: every operation added to the queue is on the queue, or in the hands
   of the drain, or was handled successfully, or was abandoned with its
   attempt counter at the ceiling. *)
NoOperationLost ==
    \A id \in 1..Len(opLog) :
        \/ id \in QueuedIds
        \/ opq.op.id = id
        \/ opLog[id].fate = "processed"
        \/ opLog[id].fate = "abandoned" /\ opLog[id].tries >= QUEUE_ATTEMPTS

(* C32: when a page fetch fails during a reconciliation run, the run goes on
   to its end (no exception leaves it), the payments and subscriptions
   written so far stay, and the cursor the run leaves behind is the cursor
   it found when it started. *)
FetchFailureKeepsCursor ==
    [][(rc.pc = "fetch" /\ rc'.pc = "cursor" /\ rc.offset < Len(ledger))
          => /\ payments' = payments
             /\ subs' = subs
             /\ NextCursor(rc'.max, cursor) = obs.recCursor]_vars

(* C33: a whitelist entry that has been revoked is not active again: while a
   join request that burned its user's entry is still being handled, the
   user has no active entry, whatever the owners' commands do meanwhile. *)
RevokedStaysRevoked ==
    \A j \in JoinTasks :
        (jn[j].pc \in {"access", "decide"} /\ jn[j].was)
            => jn[j].user \notin whitelist

(* the number of counted failures at the end of history h, after its last
   success *)
RECURSIVE TrailingFailures(_)
TrailingFailures(h) ==
    LET c == CountedOf(h)
    IN  IF c = <<>> \/ c[Len(c)].out = "success"
        THEN 0
        ELSE 1 + TrailingFailures(SubSeq(c, 1, Len(c) - 1))

(* C34: at most one task is inside the wrapped operation of a breaker at any
   time, the breaker's lock being held exactly then, and
   consecutive_failures is the number of counted failures since the last
   success. *)
OneCallInFlight ==
    /\ Cardinality({c \in BreakerTasks : ct[c] = "func"}) <= 1
    /\ (cb.pc = "func") <=> (\E c \in BreakerTasks : ct[c] = "func")
    /\ cb.consecutive_failures = TrailingFailures(cbHist)

(* a task waits for the lock while another is inside the wrapped operation,
   after two failures in a row *)
WaitsWhileOtherCalls ==
    /\ \E c, d \in BreakerTasks : ct[c] = "func" /\ ct[d] = "lock"
    /\ cb.consecutive_failures >= 2

(* C35: when a reconciliation run comes to a transaction whose payment the
   webhook has recorded (a payment row carries its id as charge id), the run
   passes over it: no payment row is added and no subscription row changes. *)
WebhookRecordedSkipped ==
    [][(/\ rc.pc = "tx"
        /\ rc' # rc
        /\ WebhookRecorded(rc.page[rc.i].id))
          => /\ payments' = payments
             /\ subs' = subs
             /\ rc'.pc \notin {"getsub", "apply"}]_vars

(* C37: a transaction whose insert raises an error other than a duplicate
   does not keep a run from the others: when a run ends, every transaction
   of its window whose user the store knows has its payment row. *)
ErrorDoesNotBlockOthers ==
    [][(rc.pc = "cursor" /\ rc'.pc = "idle")
          => \A k \in 1..Len(ledger) :
                (InWindow(ledger[k]) /\ ledger[k].user \in users)
                   => \E p \in PayIds : payments[p].star_tx_id = k]_vars

(* C38: the whitelist entry is revoked only through an approved join
   request: when the approve call of a request that found an entry fails,
   the user still holds an active entry afterwards. *)
BurnOnlyOnApproval ==
    [][\A j \in JoinTasks :
          (/\ jn[j].pc = "decide"
           /\ jn[j].was
           /\ jn'[j].pc = "idle"
           /\ joinLog'.approvals = joinLog.approvals)
             => jn[j].user \in whitelist']_vars

(* the user of join request j has active access: a subscription row with
   status active or grace whose expiry or grace deadline is in the future *)
HasAccessNow(j) ==
    \E i \in SubIds :
        /\ subs[i].user_id = jn[j].user
        /\ subs[i].status \in {"active", "grace"}
        /\ \/ subs[i].expires_at > now
           \/ subs[i].grace_until # NULL /\ subs[i].grace_until > now

(* C40 as stated: the request is approved exactly when the user has active
   access or held a whitelist entry, and otherwise a payment offer is sent. *)
ApprovedIffEntitled ==
    [][\A j \in JoinTasks :
          /\ (jn[j].pc = "access" /\ jn'[j].pc = "decide")
                => (jn'[j].has <=> HasAccessNow(j))
          /\ (jn[j].pc = "decide" /\ jn'[j].pc = "idle")
                => /\ (jn[j].has \/ jn[j].was)
                      <=> joinLog'.approvals = joinLog.approvals + 1
                   /\ ~(jn[j].has \/ jn[j].was)
                      <=> joinLog'.offers = joinLog.offers + 1]_vars

(* C40, amended: the handler reads the user's access as it is then; a
   request it approves is one of a user who has active access or held a
   whitelist entry (the approve call may fail, and then nothing is approved
   and no offer is sent); it sends the payment offer exactly to the other
   users, and never approves and offers in one request. *)
ApprovedOnlyIfEntitled ==
    [][\A j \in JoinTasks :
          /\ (jn[j].pc = "access" /\ jn'[j].pc = "decide")
                => (jn'[j].has <=> HasAccessNow(j))
          /\ (jn[j].pc = "decide" /\ jn'[j].pc = "idle")
                => /\ joinLog'.approvals # joinLog.approvals
                      => /\ jn[j].has \/ jn[j].was
                         /\ jn[j].user \in approved'
                         /\ joinLog'.offers = joinLog.offers
                   /\ ~(jn[j].has \/ jn[j].was)
                      <=> joinLog'.offers = joinLog.offers + 1
                   /\ approved' \subseteq approved \cup {jn[j].user}]_vars

(* a request was approved for a subscriber without a whitelist entry, a
   request of a user without access got the offer, and the clock has moved
   past a subscription's expiry *)
ApprovedAndOffered ==
    /\ joinLog.approvals >= 1
    /\ joinLog.offers >= 1
    /\ joinLog.burned = 0
    /\ \E i \in SubIds : subs[i].expires_at <= now

(* C39: a grant task is started by the payment path only for a user who has
   a payment row and an active subscription row, and a join request is
   approved by such a task only for such a user. *)
GrantOnlyAfterIngestion ==
    [][\A t \in GrantTasks :
          (\/ fa[t].pc # "try" /\ fa'[t].pc = "try"
           \/ fa[t].pc = "try" /\ fa'[t].pc = "approved")
             => /\ \E p \in 1..Len(payments') :
                      payments'[p].user_id = fa'[t].user
                /\ \E i \in 1..Len(subs') :
                      /\ subs'[i].user_id = fa'[t].user
                      /\ subs'[i].status = "active"]_vars

====
